---- MODULE Spec2Model ----
(***************************************************************************)
(* libretrogd: clipping, blitting and primitive drawing on indexed-colour  *)
(* bitmaps.                                                                *)
(*                                                                         *)
(* Modelled from src/libretrogd/src/graphics/bitmap/blit.rs:               *)
(*   clip_blit                     the blit clipper (a pure function)      *)
(*   Bitmap::blit_region           the checked blit entry point            *)
(*   Bitmap::blit_region_unchecked the dispatcher                          *)
(*   Bitmap::*_blit                the per-method transfer routines        *)
(* and from src/libretrogd/src/graphics/bitmap/primitives.rs:              *)
(*   Bitmap::set_pixel, get_pixel  and their blended / unchecked forms     *)
(*   Bitmap::line, horiz_line, vert_line, rect, filled_rect, circle,       *)
(*   filled_circle                 and their blended forms                 *)
(*                                                                         *)
(* Rect (right, bottom, clamp_to) and the Bitmap accessors live in files   *)
(* of the repository that are not part of the sources at hand; they are    *)
(* modelled from the written specification.                                *)
(***************************************************************************)
EXTENDS Integers, FiniteSets, Sequences, TLC

VARIABLES
    cb,     \* one call of clip_blit: its arguments and what it left in them
    dest,   \* the destination bitmap (self)
    src,    \* the source bitmap
    call,   \* the blit call made on dest: arguments, what reached the transfer routine
    fault,  \* TRUE once a transfer routine was handed a region outside a buffer
    prim    \* the pixel access or primitive drawn on dest: arguments, result

vars == <<cb, dest, src, call, fault, prim>>

(***************************************************************************)
(* Machine integers.  Rust's u32/i32 are 32 bits wide; TLC's integers are  *)
(* 32-bit themselves, so the word is modelled WordBits wide.  Every        *)
(* coordinate of the model is far below 2^(WordBits-1), so the only wrap   *)
(* that can happen is the one the code can produce: a negative i32 cast    *)
(* to u32.                                                                 *)
(***************************************************************************)
WordBits == 16

U32Mod == 2 ^ WordBits

\* `v as u32` for an i32 v
AsU32(v) == v % U32Mod

\* `u as i32` for a u32 u
AsI32(u) == IF u >= U32Mod \div 2 THEN u - U32Mod ELSE u

(***************************************************************************)
(* Rect                                                                    *)
(***************************************************************************)
Rect(x, y, w, h) == [x |-> x, y |-> y, width |-> w, height |-> h]

right(r) == r.x + AsI32(r.width) - 1

bottom(r) == r.y + AsI32(r.height) - 1

(***************************************************************************)
(* clip_blit.  The state threaded through the four edge checks is          *)
(* [ret, src, dest_x, dest_y]; ret = FALSE records an early `return false` *)
(* and the later checks are then skipped.                                  *)
(***************************************************************************)
ClipState(ret, s, dx, dy) == [ret |-> ret, src |-> s, dest_x |-> dx, dest_y |-> dy]

\* ClipLeft without the advance of the source region's x
ClipLeft_KeepsSrcX(clip, st) ==
    IF st.dest_x < clip.x
    THEN IF (st.dest_x + AsI32(st.src.width) - 1) < clip.x
         THEN [st EXCEPT !.ret = FALSE]
         ELSE LET offset == clip.x - st.dest_x
              IN  [st EXCEPT !.src.width = AsU32(AsI32(st.src.width) - offset),
                             !.dest_x = clip.x]
    ELSE st

\* off the left edge?
ClipLeft(clip, st) ==
    IF st.dest_x < clip.x
    THEN IF (st.dest_x + AsI32(st.src.width) - 1) < clip.x
         THEN [st EXCEPT !.ret = FALSE]
         ELSE LET offset == clip.x - st.dest_x
              IN  [st EXCEPT !.src.x = st.src.x + offset,
                             !.src.width = AsU32(AsI32(st.src.width) - offset),
                             !.dest_x = clip.x]
    ELSE st

\* ClipRight with the "completely off the right edge" test taken against the
\* first column past the clip rectangle instead of its last column
ClipRight_PastEdge(clip, st) ==
    IF ~st.ret THEN st
    ELSE IF st.dest_x > AsI32(clip.width) - AsI32(st.src.width)
    THEN IF st.dest_x > right(clip) + 1
         THEN [st EXCEPT !.ret = FALSE]
         ELSE LET offset == st.dest_x + AsI32(st.src.width) - AsI32(clip.width)
              IN  [st EXCEPT !.src.width = AsU32(AsI32(st.src.width) - offset)]
    ELSE st

\* off the right edge?
ClipRight(clip, st) ==
    IF ~st.ret THEN st
    ELSE IF st.dest_x > AsI32(clip.width) - AsI32(st.src.width)
    THEN IF st.dest_x > right(clip)
         THEN [st EXCEPT !.ret = FALSE]
         ELSE LET offset == st.dest_x + AsI32(st.src.width) - AsI32(clip.width)
              IN  [st EXCEPT !.src.width = AsU32(AsI32(st.src.width) - offset)]
    ELSE st

\* off the top edge?
ClipTop(clip, st) ==
    IF ~st.ret THEN st
    ELSE IF st.dest_y < clip.y
    THEN IF (st.dest_y + AsI32(st.src.height) - 1) < clip.y
         THEN [st EXCEPT !.ret = FALSE]
         ELSE LET offset == clip.y - st.dest_y
              IN  [st EXCEPT !.src.y = st.src.y + offset,
                             !.src.height = AsU32(AsI32(st.src.height) - offset),
                             !.dest_y = clip.y]
    ELSE st

\* off the bottom edge?
ClipBottom(clip, st) ==
    IF ~st.ret THEN st
    ELSE IF st.dest_y > AsI32(clip.height) - AsI32(st.src.height)
    THEN IF st.dest_y > bottom(clip)
         THEN [st EXCEPT !.ret = FALSE]
         ELSE LET offset == st.dest_y + AsI32(st.src.height) - AsI32(clip.height)
              IN  [st EXCEPT !.src.height = AsU32(AsI32(st.src.height) - offset)]
    ELSE st

clip_blit(dest_clip_region, src_blit_region, dest_x, dest_y) ==
    ClipBottom(dest_clip_region,
      ClipTop(dest_clip_region,
        ClipRight(dest_clip_region,
          ClipLeft(dest_clip_region,
            ClipState(TRUE, src_blit_region, dest_x, dest_y)))))

(***************************************************************************)
(* Rect::clamp_to: intersects the rectangle with `bounds`; ok = FALSE when *)
(* no positive-area intersection remains (the rectangle is then not used). *)
(***************************************************************************)
Max2(a, b) == IF a >= b THEN a ELSE b
Min2(a, b) == IF a <= b THEN a ELSE b

clamp_to(r, bounds) ==
    LET x1 == Max2(r.x, bounds.x)
        y1 == Max2(r.y, bounds.y)
        x2 == Min2(right(r), right(bounds))
        y2 == Min2(bottom(r), bottom(bounds))
    IN  IF x1 > x2 \/ y1 > y2
        THEN [ok |-> FALSE, rect |-> r]
        ELSE [ok |-> TRUE, rect |-> Rect(x1, y1, AsU32(x2 - x1 + 1), AsU32(y2 - y1 + 1))]

(***************************************************************************)
(* Bitmap: width, height, clip_region and the pixel buffer, one byte per   *)
(* pixel, indexed 0 .. width * height - 1.                                 *)
(***************************************************************************)
ByteMod == 256

Bitmap(w, h, clip, px) == [width |-> w, height |-> h, clip_region |-> clip, pixels |-> px]

\* pixels_at_ptr_unchecked / pixels_at_mut_ptr_unchecked: the buffer offset of (x, y)
pixels_at_ptr_unchecked(bmp, x, y) == y * bmp.width + x

\* Option::None, where the code has an Option<u8> or an Option<&[u8]>
None == 0 - 1

\* is_xy_visible: (x, y) lies inside the bitmap's clip region
is_xy_visible(bmp, x, y) ==
    /\ x >= bmp.clip_region.x /\ y >= bmp.clip_region.y
    /\ x <= right(bmp.clip_region) /\ y <= bottom(bmp.clip_region)

\* pixels_at / pixels_at_mut: the buffer offset of (x, y), or None when (x, y)
\* lies outside the clip region
pixels_at(bmp, x, y) ==
    IF is_xy_visible(bmp, x, y) THEN pixels_at_ptr_unchecked(bmp, x, y) ELSE None

\* set_pixel with the clip test left out: the write goes to the offset of
\* (x, y) whenever that offset lies in the buffer
set_pixel_NoClipTest(bmp, x, y, color) ==
    IF pixels_at_ptr_unchecked(bmp, x, y) \in DOMAIN bmp.pixels
    THEN [bmp EXCEPT !.pixels[pixels_at_ptr_unchecked(bmp, x, y)] = color]
    ELSE bmp

\* set_pixel: returns the bitmap it leaves
set_pixel(bmp, x, y, color) ==
    IF pixels_at(bmp, x, y) # None
    THEN [bmp EXCEPT !.pixels[pixels_at(bmp, x, y)] = color]
    ELSE bmp

\* get_pixel reading the first visible pixel of row y instead of pixel (x, y)
get_pixel_FirstOfRow(bmp, x, y) ==
    IF pixels_at(bmp, x, y) # None
    THEN bmp.pixels[pixels_at(bmp, bmp.clip_region.x, y)] ELSE None

\* get_pixel: Some(byte) is the byte, None is None
get_pixel(bmp, x, y) ==
    IF pixels_at(bmp, x, y) # None THEN bmp.pixels[pixels_at(bmp, x, y)] ELSE None

\* u8::saturating_add, the addition wrapping_add is not
saturating_add(a, b) == Min2(a + b, ByteMod - 1)

\* u8::wrapping_add
wrapping_add(a, b) == (a + b) % ByteMod

(***************************************************************************)
(* BlitMethod.  Every method value carries all parameter fields; a method  *)
(* reads only the fields its variant has.                                  *)
(***************************************************************************)
Method(tag, hf, vf, tc, off, dc) ==
    [tag |-> tag, horizontal_flip |-> hf, vertical_flip |-> vf,
     transparent_color |-> tc, offset |-> off, draw_color |-> dc,
     angle |-> 0, scale_x |-> 1, scale_y |-> 1]

Solid == Method("Solid", FALSE, FALSE, 0, 0, 0)
SolidFlipped(hf, vf) == Method("SolidFlipped", hf, vf, 0, 0, 0)
Transparent(tc) == Method("Transparent", FALSE, FALSE, tc, 0, 0)
TransparentFlipped(tc, hf, vf) == Method("TransparentFlipped", hf, vf, tc, 0, 0)
TransparentSingle(tc, dc) == Method("TransparentSingle", FALSE, FALSE, tc, 0, dc)
TransparentFlippedSingle(tc, hf, vf, dc) == Method("TransparentFlippedSingle", hf, vf, tc, 0, dc)
SolidOffset(off) == Method("SolidOffset", FALSE, FALSE, 0, off, 0)
SolidFlippedOffset(hf, vf, off) == Method("SolidFlippedOffset", hf, vf, 0, off, 0)
TransparentOffset(tc, off) == Method("TransparentOffset", FALSE, FALSE, tc, off, 0)
TransparentFlippedOffset(tc, hf, vf, off) == Method("TransparentFlippedOffset", hf, vf, tc, off, 0)

\* The rotozoom methods.  angle, scale_x and scale_y are f32 in the code; the
\* model draws them from the values for which the f32 arithmetic of
\* rotozoom_blit is exact: angle 0 (cos = 1, sin = 0) and the scales 1 and 2.
RotoMethod(tag, angle, scale_x, scale_y, tc, off) ==
    [Method(tag, FALSE, FALSE, tc, off, 0)
        EXCEPT !.angle = angle, !.scale_x = scale_x, !.scale_y = scale_y]

RotoZoom(angle, scale_x, scale_y) == RotoMethod("RotoZoom", angle, scale_x, scale_y, 0, 0)
RotoZoomTransparent(angle, scale_x, scale_y, tc) ==
    RotoMethod("RotoZoomTransparent", angle, scale_x, scale_y, tc, 0)
RotoZoomOffset(angle, scale_x, scale_y, off) ==
    RotoMethod("RotoZoomOffset", angle, scale_x, scale_y, 0, off)
RotoZoomTransparentOffset(angle, scale_x, scale_y, tc, off) ==
    RotoMethod("RotoZoomTransparentOffset", angle, scale_x, scale_y, tc, off)

IsRotoZoom(method) ==
    method.tag \in {"RotoZoom", "RotoZoomTransparent", "RotoZoomOffset",
                    "RotoZoomTransparentOffset"}

(***************************************************************************)
(* get_flipped_blit_properties: the source step per pixel, the source      *)
(* corner the traversal starts at and the source step at the end of a row. *)
(***************************************************************************)
get_flipped_blit_properties(s, src_region, horizontal_flip, vertical_flip) ==
    IF ~horizontal_flip /\ ~vertical_flip
    THEN [x_inc |-> 1, src_start_x |-> src_region.x, src_start_y |-> src_region.y,
          src_next_row_inc |-> s.width - src_region.width]
    ELSE IF horizontal_flip /\ ~vertical_flip
    THEN [x_inc |-> -1, src_start_x |-> right(src_region), src_start_y |-> src_region.y,
          src_next_row_inc |-> s.width + src_region.width]
    ELSE IF ~horizontal_flip /\ vertical_flip
    THEN [x_inc |-> 1, src_start_x |-> src_region.x, src_start_y |-> bottom(src_region),
          src_next_row_inc |-> 0 - (s.width + src_region.width)]
    ELSE [x_inc |-> -1, src_start_x |-> right(src_region), src_start_y |-> bottom(src_region),
          src_next_row_inc |-> 0 - (s.width - src_region.width)]

(***************************************************************************)
(* The transfer routines.  Each returns the destination pixel buffer it    *)
(* leaves.  src_pixels / dest_pixels of the code are raw pointers; here    *)
(* they are offsets sp / dp into the two buffers, advanced as the code     *)
(* advances them.                                                          *)
(***************************************************************************)

\* solid_blit: one copy_from of src_row_length bytes per row
RECURSIVE SolidRows(_, _, _, _, _, _, _, _)
SolidRows(rows, src_row_length, src_pitch, dest_pitch, spix, sp, dp, dpix) ==
    IF rows = 0 THEN dpix
    ELSE SolidRows(rows - 1, src_row_length, src_pitch, dest_pitch, spix,
                   sp + src_pitch, dp + dest_pitch,
                   [i \in DOMAIN dpix |->
                       IF dp <= i /\ i < dp + src_row_length
                       THEN spix[sp + (i - dp)] ELSE dpix[i]])

solid_blit(d, s, src_region, dest_x, dest_y) ==
    SolidRows(src_region.height, src_region.width, s.width, d.width, s.pixels,
              pixels_at_ptr_unchecked(s, src_region.x, src_region.y),
              pixels_at_ptr_unchecked(d, dest_x, dest_y),
              d.pixels)

\* The per-pixel statement of each of the other routines' inner loop.
PutSolid(pixel, old, m) == pixel
\* PutOffset adding the offset to the destination pixel instead of the source pixel
PutOffset_OntoDest(pixel, old, m) == wrapping_add(old, m.offset)
PutOffset(pixel, old, m) == wrapping_add(pixel, m.offset)
\* PutTransparent with the comparison against transparent_color inverted
PutTransparent_Inverted(pixel, old, m) == IF pixel = m.transparent_color THEN pixel ELSE old
PutTransparent(pixel, old, m) == IF pixel # m.transparent_color THEN pixel ELSE old
\* PutTransparentOffset testing the pixel against transparent_color after the offset
PutTransparentOffset_TestAfter(pixel, old, m) ==
    IF wrapping_add(pixel, m.offset) # m.transparent_color
    THEN wrapping_add(pixel, m.offset) ELSE old
PutTransparentOffset(pixel, old, m) ==
    IF pixel # m.transparent_color THEN wrapping_add(pixel, m.offset) ELSE old
PutTransparentSingle(pixel, old, m) ==
    IF pixel # m.transparent_color THEN m.draw_color ELSE old

Put(pixel, old, m) ==
    CASE m.tag \in {"SolidFlipped"} -> PutSolid(pixel, old, m)
      [] m.tag \in {"SolidOffset", "SolidFlippedOffset"} -> PutOffset(pixel, old, m)
      [] m.tag \in {"Transparent", "TransparentFlipped"} -> PutTransparent(pixel, old, m)
      [] m.tag \in {"TransparentOffset", "TransparentFlippedOffset"} ->
            PutTransparentOffset(pixel, old, m)
      [] m.tag \in {"TransparentSingle", "TransparentFlippedSingle"} ->
            PutTransparentSingle(pixel, old, m)

\* The double loop the routines share: `for _ in 0..height { for _ in 0..width
\* { <put>; src_pixels += x_inc; dest_pixels += 1 } src_pixels +=
\* src_next_row_inc; dest_pixels += dest_next_row_inc }`.  lp holds the loop
\* bounds and the three pointer steps, ptrs the two running pointers.
RECURSIVE PixelLoop(_, _, _, _, _, _, _)
PixelLoop(m, lp, spix, row, col, ptrs, dpix) ==
    IF row = lp.height THEN dpix
    ELSE IF col = lp.width
    THEN PixelLoop(m, lp, spix, row + 1, 0,
                   [sp |-> ptrs.sp + lp.src_next_row_inc,
                    dp |-> ptrs.dp + lp.dest_next_row_inc],
                   dpix)
    ELSE PixelLoop(m, lp, spix, row, col + 1,
                   [sp |-> ptrs.sp + lp.x_inc, dp |-> ptrs.dp + 1],
                   [dpix EXCEPT ![ptrs.dp] = Put(spix[ptrs.sp], dpix[ptrs.dp], m)])

\* the routines without flipping: the source is walked left to right, top to bottom
UnflippedBlit(d, s, src_region, dest_x, dest_y, m) ==
    PixelLoop(m,
              [width |-> src_region.width, height |-> src_region.height, x_inc |-> 1,
               src_next_row_inc |-> s.width - src_region.width,
               dest_next_row_inc |-> d.width - src_region.width],
              s.pixels, 0, 0,
              [sp |-> pixels_at_ptr_unchecked(s, src_region.x, src_region.y),
               dp |-> pixels_at_ptr_unchecked(d, dest_x, dest_y)],
              d.pixels)

\* the routines with flipping: the walk is set by get_flipped_blit_properties
FlippedBlit(d, s, src_region, dest_x, dest_y, m) ==
    LET fp == get_flipped_blit_properties(s, src_region, m.horizontal_flip, m.vertical_flip)
    IN  PixelLoop(m,
                  [width |-> src_region.width, height |-> src_region.height,
                   x_inc |-> fp.x_inc,
                   src_next_row_inc |-> fp.src_next_row_inc,
                   dest_next_row_inc |-> d.width - src_region.width],
                  s.pixels, 0, 0,
                  [sp |-> pixels_at_ptr_unchecked(s, fp.src_start_x, fp.src_start_y),
                   dp |-> pixels_at_ptr_unchecked(d, dest_x, dest_y)],
                  d.pixels)

solid_flipped_blit(d, s, src_region, dest_x, dest_y, m) ==
    FlippedBlit(d, s, src_region, dest_x, dest_y, m)

solid_palette_offset_blit(d, s, src_region, dest_x, dest_y, m) ==
    UnflippedBlit(d, s, src_region, dest_x, dest_y, m)

solid_flipped_palette_offset_blit(d, s, src_region, dest_x, dest_y, m) ==
    FlippedBlit(d, s, src_region, dest_x, dest_y, m)

transparent_blit(d, s, src_region, dest_x, dest_y, m) ==
    UnflippedBlit(d, s, src_region, dest_x, dest_y, m)

transparent_flipped_blit(d, s, src_region, dest_x, dest_y, m) ==
    FlippedBlit(d, s, src_region, dest_x, dest_y, m)

transparent_palette_offset_blit(d, s, src_region, dest_x, dest_y, m) ==
    UnflippedBlit(d, s, src_region, dest_x, dest_y, m)

transparent_flipped_palette_offset_blit(d, s, src_region, dest_x, dest_y, m) ==
    FlippedBlit(d, s, src_region, dest_x, dest_y, m)

transparent_single_color_blit(d, s, src_region, dest_x, dest_y, m) ==
    UnflippedBlit(d, s, src_region, dest_x, dest_y, m)

transparent_flipped_single_color_blit(d, s, src_region, dest_x, dest_y, m) ==
    FlippedBlit(d, s, src_region, dest_x, dest_y, m)

(***************************************************************************)
(* rotozoom_blit and rotozoom_palette_offset_blit, for angle 0 and whole    *)
(* scales.  new_width = width * scale_x, src_delta_x = 1 / scale_x, so the *)
(* source column sampled for point_x is point_x / scale_x rounded down; the *)
(* rotation is the identity, so draw_x = dest_x + point_x and draw_y =      *)
(* dest_y + point_y.  Every sampled pixel is written twice, at draw_x and   *)
(* at draw_x + 1, through set_pixel.  src_pixels[..] is an indexed read of  *)
(* a slice: a read past the end of the source buffer panics, and the        *)
(* routine leaves what it has drawn so far.  (The comparison of `drawn`     *)
(* with `d` makes TLC evaluate the bitmap at every step of the loop.)       *)
(***************************************************************************)
RECURSIVE RotoLoop(_, _, _, _, _)
RotoLoop(rz, s, d, point_y, point_x) ==
    IF point_y >= rz.new_height THEN d
    ELSE IF point_x >= rz.new_width THEN RotoLoop(rz, s, d, point_y + 1, 0)
    ELSE LET sp == pixels_at_ptr_unchecked(s, rz.region.x,
                                           rz.region.y + (point_y \div rz.scale_y))
                   + (point_x \div rz.scale_x)
         IN  IF sp \notin DOMAIN s.pixels THEN d
             ELSE LET pixel  == s.pixels[sp]
                      draw_x == rz.dest_x + point_x
                      draw_y == rz.dest_y + point_y
                      out    == IF rz.offset = None THEN pixel
                                ELSE wrapping_add(pixel, rz.offset)
                      drawn  == IF rz.transparent_color = None
                                   \/ rz.transparent_color # pixel
                                THEN set_pixel(set_pixel(d, draw_x, draw_y, out),
                                               draw_x + 1, draw_y, out)
                                ELSE d
                  IN  IF drawn.pixels = d.pixels
                      THEN RotoLoop(rz, s, d, point_y, point_x + 1)
                      ELSE RotoLoop(rz, s, drawn, point_y, point_x + 1)

RotoArgs(src_region, dest_x, dest_y, m, transparent_color, offset) ==
    [region |-> src_region, dest_x |-> dest_x, dest_y |-> dest_y,
     scale_x |-> m.scale_x, scale_y |-> m.scale_y,
     new_width |-> src_region.width * m.scale_x,
     new_height |-> src_region.height * m.scale_y,
     transparent_color |-> transparent_color, offset |-> offset]

rotozoom_blit(d, s, src_region, dest_x, dest_y, m, transparent_color) ==
    LET rz == RotoArgs(src_region, dest_x, dest_y, m, transparent_color, None)
    IN  IF rz.new_width <= 0 \/ rz.new_height <= 0 THEN d.pixels
        ELSE RotoLoop(rz, s, d, 0, 0).pixels

rotozoom_palette_offset_blit(d, s, src_region, dest_x, dest_y, m, transparent_color) ==
    LET rz == RotoArgs(src_region, dest_x, dest_y, m, transparent_color, m.offset)
    IN  IF rz.new_width <= 0 \/ rz.new_height <= 0 THEN d.pixels
        ELSE RotoLoop(rz, s, d, 0, 0).pixels

\* blit_region_unchecked: the dispatcher
blit_region_unchecked(d, s, method, src_region, dest_x, dest_y) ==
    CASE method.tag = "Solid" -> solid_blit(d, s, src_region, dest_x, dest_y)
      [] method.tag = "SolidFlipped" ->
            solid_flipped_blit(d, s, src_region, dest_x, dest_y, method)
      [] method.tag = "SolidOffset" ->
            solid_palette_offset_blit(d, s, src_region, dest_x, dest_y, method)
      [] method.tag = "SolidFlippedOffset" ->
            solid_flipped_palette_offset_blit(d, s, src_region, dest_x, dest_y, method)
      [] method.tag = "Transparent" ->
            transparent_blit(d, s, src_region, dest_x, dest_y, method)
      [] method.tag = "TransparentFlipped" ->
            transparent_flipped_blit(d, s, src_region, dest_x, dest_y, method)
      [] method.tag = "TransparentOffset" ->
            transparent_palette_offset_blit(d, s, src_region, dest_x, dest_y, method)
      [] method.tag = "TransparentFlippedOffset" ->
            transparent_flipped_palette_offset_blit(d, s, src_region, dest_x, dest_y, method)
      [] method.tag = "TransparentSingle" ->
            transparent_single_color_blit(d, s, src_region, dest_x, dest_y, method)
      [] method.tag = "TransparentFlippedSingle" ->
            transparent_flipped_single_color_blit(d, s, src_region, dest_x, dest_y, method)
      [] method.tag = "RotoZoom" ->
            rotozoom_blit(d, s, src_region, dest_x, dest_y, method, None)
      [] method.tag = "RotoZoomOffset" ->
            rotozoom_palette_offset_blit(d, s, src_region, dest_x, dest_y, method, None)
      [] method.tag = "RotoZoomTransparent" ->
            rotozoom_blit(d, s, src_region, dest_x, dest_y, method,
                          method.transparent_color)
      [] method.tag = "RotoZoomTransparentOffset" ->
            rotozoom_palette_offset_blit(d, s, src_region, dest_x, dest_y, method,
                                         method.transparent_color)

(***************************************************************************)
(* blit_region and blit, the checked entry points.                         *)
(*                                                                         *)
(* The transfer routines are `unsafe`: handed a region that reaches        *)
(* outside the source or destination buffer they read and write through    *)
(* raw pointers outside the buffers, which is undefined behaviour.  The    *)
(* model then sets `fault` and lets the destination buffer be any of:      *)
(* untouched (the process aborts before the first write), or overwritten   *)
(* from the first written offset to the end of the buffer by one arbitrary *)
(* byte.  The rotozoom routines write through set_pixel only; handed a     *)
(* region that reaches outside the source buffer they panic at the first   *)
(* read outside it.                                                        *)
(***************************************************************************)
IsWrapped(u) == u >= U32Mod \div 2

\* some pixel is transferred: neither loop bound is 0
XferTouches(region) == region.width > 0 /\ region.height > 0

\* the region handed to a transfer routine lies inside both buffers
XferInBounds(d, s, region, x, y) ==
    /\ ~IsWrapped(region.width) /\ ~IsWrapped(region.height)
    /\ 0 <= x /\ x + region.width <= d.width
    /\ 0 <= y /\ y + region.height <= d.height
    /\ 0 <= region.x /\ region.x + region.width <= s.width
    /\ 0 <= region.y /\ region.y + region.height <= s.height

\* the region handed to a rotozoom routine lies inside the source buffer
RotoInBounds(s, region) ==
    /\ ~IsWrapped(region.width) /\ ~IsWrapped(region.height)
    /\ 0 <= region.x /\ region.x + region.width <= s.width
    /\ 0 <= region.y /\ region.y + region.height <= s.height

\* the transfer routine of `method` stays inside the buffers
XferSafe(d, s, method, region, x, y) ==
    IF IsRotoZoom(method) THEN RotoInBounds(s, region)
    ELSE XferInBounds(d, s, region, x, y)

GarbageBytes == {0, ByteMod - 1}

Clobbered(px, start, g) == [i \in DOMAIN px |-> IF i >= start THEN g ELSE px[i]]

UndefinedOutcomes(d, x, y) ==
    {d.pixels} \cup
    { Clobbered(d.pixels, pixels_at_ptr_unchecked(d, x, y), g) : g \in GarbageBytes }

\* what a transfer routine handed a region outside a buffer can leave
XferOutcomes(d, s, method, region, x, y) ==
    IF IsRotoZoom(method) THEN {blit_region_unchecked(d, s, method, region, x, y)}
    ELSE UndefinedOutcomes(d, x, y)

IdleCall ==
    [pc |-> "idle", method |-> Solid, src_region |-> Rect(0, 0, 0, 0),
     dest_x |-> 0, dest_y |-> 0, invoked |-> FALSE,
     region |-> Rect(0, 0, 0, 0), x |-> 0, y |-> 0, before |-> <<>>]

\* rotozoom blits clip per pixel; clip_blit is not run for them
SkipsClipBlit(method) == method.tag \in {"RotoZoom", "RotoZoomTransparent"}

BlitRegion(method, src_region, dest_x, dest_y) ==
    /\ LET c  == clamp_to(src_region, src.clip_region)
           k  == IF SkipsClipBlit(method)
                 THEN ClipState(TRUE, c.rect, dest_x, dest_y)
                 ELSE clip_blit(dest.clip_region, c.rect, dest_x, dest_y)
           go == c.ok /\ k.ret
       IN  /\ call' = [pc |-> IF call.pc = "idle" THEN "done" ELSE "again",
                       method |-> method, src_region |-> src_region,
                       dest_x |-> dest_x, dest_y |-> dest_y, invoked |-> go,
                       region |-> IF go THEN k.src ELSE Rect(0, 0, 0, 0),
                       x |-> IF go THEN k.dest_x ELSE 0,
                       y |-> IF go THEN k.dest_y ELSE 0,
                       before |-> dest.pixels]
           /\ IF ~go \/ ~XferTouches(k.src)
              THEN UNCHANGED <<dest, fault>>
              ELSE IF XferSafe(dest, src, method, k.src, k.dest_x, k.dest_y)
              THEN /\ dest' = [dest EXCEPT !.pixels =
                                  blit_region_unchecked(dest, src, method, k.src,
                                                        k.dest_x, k.dest_y)]
                   /\ UNCHANGED fault
              ELSE /\ fault' = TRUE
                   /\ \E px \in XferOutcomes(dest, src, method, k.src, k.dest_x, k.dest_y) :
                         dest' = [dest EXCEPT !.pixels = px]
    /\ UNCHANGED <<cb, src, prim>>

Blit(method, x, y) ==
    BlitRegion(method, Rect(0, 0, src.width, src.height), x, y)

(***************************************************************************)
(* Spec: one checked blit between two small bitmaps, for every clip region *)
(* of the destination, every method and a range of regions and origins.   *)
(***************************************************************************)
DestW == 4
DestH == 3
SrcW  == 3
SrcH  == 2

FullRect(w, h) == Rect(0, 0, w, h)

\* the clip regions the destination is given: the whole bitmap (the default),
\* a corner at the origin, and regions whose origin is not (0, 0) -- reaching
\* the far edges, strictly inside, and the two rightmost columns
DestClips ==
    { FullRect(DestW, DestH),
      Rect(0, 0, DestW - 1, DestH - 1),
      Rect(1, 1, DestW - 1, DestH - 1),
      Rect(1, 0, DestW - 2, DestH),
      Rect(DestW - 2, 0, 2, DestH) }

InitialDestPixel(i) == 100 + i

DestBitmaps ==
    { Bitmap(DestW, DestH, clip, [i \in 0..(DestW * DestH - 1) |-> InitialDestPixel(i)]) :
         clip \in DestClips }

SrcBitmap(base, clip) ==
    Bitmap(SrcW, SrcH, clip, [i \in 0..(SrcW * SrcH - 1) |-> (base + i) % ByteMod])

SrcBitmaps ==
    { SrcBitmap(0, clip) : clip \in {FullRect(SrcW, SrcH), Rect(1, 0, SrcW - 1, SrcH)} }

TransparentColors == {2}
Offsets == {ByteMod - 1}
DrawColors == {9}
RotoAngles == {0}
RotoScales == {1, 2}

Methods ==
    {Solid}
    \cup { SolidFlipped(hf, vf) : hf \in BOOLEAN, vf \in BOOLEAN }
    \cup { Transparent(tc) : tc \in TransparentColors }
    \cup { TransparentFlipped(tc, hf, vf) :
              tc \in TransparentColors, hf \in BOOLEAN, vf \in BOOLEAN }
    \cup { TransparentSingle(tc, dc) : tc \in TransparentColors, dc \in DrawColors }
    \cup { TransparentFlippedSingle(tc, hf, vf, dc) :
              tc \in TransparentColors, hf \in BOOLEAN, vf \in BOOLEAN, dc \in DrawColors }
    \cup { SolidOffset(off) : off \in Offsets }
    \cup { SolidFlippedOffset(hf, vf, off) :
              hf \in BOOLEAN, vf \in BOOLEAN, off \in Offsets }
    \cup { TransparentOffset(tc, off) : tc \in TransparentColors, off \in Offsets }
    \cup { TransparentFlippedOffset(tc, hf, vf, off) :
              tc \in TransparentColors, hf \in BOOLEAN, vf \in BOOLEAN, off \in Offsets }
    \cup { RotoZoom(a, k, k) : a \in RotoAngles, k \in RotoScales }
    \cup { RotoZoomTransparent(a, k, k, tc) :
              a \in RotoAngles, k \in RotoScales, tc \in TransparentColors }
    \cup { RotoZoomOffset(a, k, k, off) :
              a \in RotoAngles, k \in RotoScales, off \in Offsets }
    \cup { RotoZoomTransparentOffset(a, k, k, tc, off) :
              a \in RotoAngles, k \in RotoScales, tc \in TransparentColors,
              off \in Offsets }

\* the src_region arguments: inside the source bitmap or hanging over its
\* right and bottom edges (and over the left edge of a narrowed source clip)
SrcRegionArgs ==
    { Rect(x, y, w, h) : x \in 0..1, y \in 0..1, w \in 1..SrcW, h \in 1..SrcH }

DestXs == (0 - SrcW) .. DestW
DestYs == (0 - SrcH) .. DestH

IdlePrim == [pc |-> "idle"]

IdleClip ==
    [pc |-> "idle", clip |-> Rect(0, 0, 1, 1), src |-> Rect(0, 0, 1, 1),
     dest_x |-> 0, dest_y |-> 0, out |-> ClipState(FALSE, Rect(0, 0, 1, 1), 0, 0)]

Init ==
    /\ cb = IdleClip
    /\ dest \in DestBitmaps
    /\ src \in SrcBitmaps
    /\ call = IdleCall
    /\ fault = FALSE
    /\ prim = IdlePrim

CallBlitRegion ==
    /\ call.pc = "idle"
    /\ \E method \in Methods, r \in SrcRegionArgs, x \in DestXs, y \in DestYs :
          BlitRegion(method, r, x, y)

CallBlit ==
    /\ call.pc = "idle"
    /\ \E method \in Methods, x \in DestXs, y \in DestYs :
          Blit(method, x, y)

Next == CallBlitRegion \/ CallBlit

Spec == Init /\ [][Next]_vars

(***************************************************************************)
(* SpecTwice: a blit of the whole source, then blit_region called a second *)
(* time with the arguments of the first call.  A call that faulted does    *)
(* not return, so no second call follows it.                               *)
(***************************************************************************)
CallAgain ==
    /\ call.pc = "done"
    /\ ~fault
    /\ BlitRegion(call.method, call.src_region, call.dest_x, call.dest_y)

NextTwice == CallBlit \/ CallAgain

SpecTwice == Init /\ [][NextTwice]_vars

(***************************************************************************)
(* SpecOffset: the palette-offset blits for every source byte and every    *)
(* offset.  The source bitmap holds SrcW * SrcH consecutive byte values    *)
(* starting at a base; the bases step through the whole byte range.        *)
(***************************************************************************)
Bytes == 0..(ByteMod - 1)

OffsetBases == { b \in Bytes : b % (SrcW * SrcH) = 0 }

InitOffset ==
    /\ cb = IdleClip
    /\ dest = Bitmap(DestW, DestH, FullRect(DestW, DestH),
                     [i \in 0..(DestW * DestH - 1) |-> InitialDestPixel(i)])
    /\ src \in { SrcBitmap(b, FullRect(SrcW, SrcH)) : b \in OffsetBases }
    /\ call = IdleCall
    /\ fault = FALSE
    /\ prim = IdlePrim

CallSolidOffset ==
    /\ call.pc = "idle"
    /\ \E off \in Bytes : Blit(SolidOffset(off), 1, 0)

CallSolidFlippedOffset ==
    /\ call.pc = "idle"
    /\ \E off \in Bytes, hf \in BOOLEAN, vf \in BOOLEAN :
          Blit(SolidFlippedOffset(hf, vf, off), 0, 1)

NextOffset == CallSolidOffset \/ CallSolidFlippedOffset

SpecOffset == InitOffset /\ [][NextOffset]_vars

(***************************************************************************)
(* SpecClip: clip_blit applied to every input of a bounded domain.         *)
(***************************************************************************)
MaxClipXY == 2      \* clip rectangle origin in 0..MaxClipXY
MaxClipWH == 2      \* clip rectangle size in 1..MaxClipWH
MaxSrcXY  == 1      \* source region origin in 0..MaxSrcXY
MaxSrcWH  == 3      \* source region size in 1..MaxSrcWH

ClipRects == { Rect(x, y, w, h) : x \in 0..MaxClipXY, y \in 0..MaxClipXY,
                                  w \in 1..MaxClipWH, h \in 1..MaxClipWH }

SrcRegions == { Rect(x, y, w, h) : x \in 0..MaxSrcXY, y \in 0..MaxSrcXY,
                                   w \in 1..MaxSrcWH, h \in 1..MaxSrcWH }

DestCoords == (0 - MaxSrcWH) .. (MaxClipXY + MaxClipWH)

InitClip ==
    /\ \E clip \in ClipRects, s \in SrcRegions, dx \in DestCoords, dy \in DestCoords :
          cb = [pc |-> "call", clip |-> clip, src |-> s, dest_x |-> dx, dest_y |-> dy,
                out |-> ClipState(FALSE, s, dx, dy)]
    /\ dest = Bitmap(DestW, DestH, FullRect(DestW, DestH),
                     [i \in 0..(DestW * DestH - 1) |-> InitialDestPixel(i)])
    /\ src = SrcBitmap(0, FullRect(SrcW, SrcH))
    /\ call = IdleCall
    /\ fault = FALSE
    /\ prim = IdlePrim

ClipBlitCall ==
    /\ cb.pc = "call"
    /\ cb' = [cb EXCEPT !.pc = "done",
                        !.out = clip_blit(cb.clip, cb.src, cb.dest_x, cb.dest_y)]
    /\ UNCHANGED <<dest, src, call, fault, prim>>

NextClip == ClipBlitCall

SpecClip == InitClip /\ [][NextClip]_vars

(***************************************************************************)
(* Primitives (primitives.rs).  Every operator returns the bitmap the      *)
(* method leaves in `self`.                                                *)
(***************************************************************************)

\* BlendMap: a function from the colours that have a mapping to their
\* 256-entry tables.  get_mapping returns Option<table>.
get_mapping(blend_map, color) ==
    IF color \in DOMAIN blend_map
    THEN [some |-> TRUE, mapping |-> blend_map[color]]
    ELSE [some |-> FALSE, mapping |-> <<>>]

\* BlendMap::blend: Some(mapping[dest_color]), or None without a mapping
blend(blend_map, src_color, dest_color) ==
    IF get_mapping(blend_map, src_color).some
    THEN get_mapping(blend_map, src_color).mapping[dest_color]
    ELSE None

\* Rect::from_coords: the rectangle with the two corners given, normalised
from_coords(x1, y1, x2, y2) ==
    Rect(Min2(x1, x2), Min2(y1, y2),
         AsU32(Max2(x1, x2) - Min2(x1, x2) + 1), AsU32(Max2(y1, y2) - Min2(y1, y2) + 1))

set_blended_pixel(bmp, x, y, color, blend_map) ==
    IF pixels_at(bmp, x, y) # None
    THEN LET dest_color == bmp.pixels[pixels_at(bmp, x, y)]
         IN  [bmp EXCEPT !.pixels[pixels_at(bmp, x, y)] =
                 IF blend(blend_map, color, dest_color) # None
                 THEN blend(blend_map, color, dest_color) ELSE color]
    ELSE bmp

set_pixel_unchecked(bmp, x, y, color) ==
    [bmp EXCEPT !.pixels[pixels_at_ptr_unchecked(bmp, x, y)] = color]

set_blended_pixel_unchecked(bmp, x, y, color, blend_map) ==
    LET p == pixels_at_ptr_unchecked(bmp, x, y)
    IN  [bmp EXCEPT !.pixels[p] =
            IF blend(blend_map, color, bmp.pixels[p]) # None
            THEN blend(blend_map, color, bmp.pixels[p]) ELSE color]

get_pixel_unchecked(bmp, x, y) == bmp.pixels[pixels_at_ptr_unchecked(bmp, x, y)]

\* What a primitive stores into a pixel: `*dest = color` for the plain
\* primitives, `*dest = blend_mapping[*dest]` for the blended ones.
Flat(color) == [blended |-> FALSE, color |-> color, mapping |-> <<>>]
Blended(mapping) == [blended |-> TRUE, color |-> 0, mapping |-> mapping]
Ink(w, old) == IF w.blended THEN w.mapping[old] ELSE w.color

\* `dest.write_bytes(color, len)` and `for x in 0..len { dest[x] = .. }`:
\* the len pixels from offset start on
FillRow(px, start, len, w) ==
    [i \in DOMAIN px |-> IF start <= i /\ i < start + len THEN Ink(w, px[i]) ELSE px[i]]

\* `for _ in 0..count { *dest = ..; dest = dest.add(pitch) }`: count pixels,
\* one per row, from offset start down
FillColumn(px, start, count, pitch, w) ==
    [i \in DOMAIN px |->
        IF i >= start /\ (i - start) % pitch = 0 /\ (i - start) \div pitch < count
        THEN Ink(w, px[i]) ELSE px[i]]

\* FillBlock advancing the pointer by the row length instead of the pitch
FillBlock_PitchLen(px, start, len, rows, pitch, w) ==
    [i \in DOMAIN px |->
        IF i >= start /\ i < start + len * rows THEN Ink(w, px[i]) ELSE px[i]]

\* `for _ in 0..rows { <row of len>; dest = dest.add(pitch) }`
FillBlock(px, start, len, rows, pitch, w) ==
    [i \in DOMAIN px |->
        IF i >= start /\ (i - start) % pitch < len /\ (i - start) \div pitch < rows
        THEN Ink(w, px[i]) ELSE px[i]]

Abs(v) == IF v < 0 THEN 0 - v ELSE v
Signum(v) == IF v < 0 THEN 0 - 1 ELSE IF v > 0 THEN 1 ELSE 0

\* line / blended_line: the values fixed before the loop
LineArgs(bmp, x1, y1, x2, y2) ==
    [delta_x_abs |-> Abs(x2 - x1), delta_y_abs |-> Abs(y2 - y1),
     delta_x_sign |-> Signum(x2 - x1), delta_y_sign |-> Signum(y2 - y1),
     offset_x_inc |-> Signum(x2 - x1), offset_y_inc |-> Signum(y2 - y1) * bmp.width]

\* LineStep stepping the minor axis only when the error term exceeds the
\* major delta (`>` for `>=`)
LineStep_StrictCarry(bmp, ln, w, st) ==
    LET xmajor == ln.delta_x_abs >= ln.delta_y_abs
        err    == IF xmajor THEN st.y + ln.delta_y_abs ELSE st.x + ln.delta_x_abs
        carry  == IF xmajor THEN err > ln.delta_x_abs ELSE err > ln.delta_y_abs
        dx     == IF xmajor \/ carry THEN st.dx + ln.delta_x_sign ELSE st.dx
        dy     == IF ~xmajor \/ carry THEN st.dy + ln.delta_y_sign ELSE st.dy
        dest1  == st.dest + (IF xmajor \/ carry THEN ln.offset_x_inc ELSE 0)
                          + (IF ~xmajor \/ carry THEN ln.offset_y_inc ELSE 0)
    IN  [x    |-> IF xmajor THEN st.x
                  ELSE IF carry THEN err - ln.delta_y_abs ELSE err,
         y    |-> IF ~xmajor THEN st.y
                  ELSE IF carry THEN err - ln.delta_x_abs ELSE err,
         dx   |-> dx, dy |-> dy, dest |-> dest1,
         px   |-> IF is_xy_visible(bmp, dx, dy)
                  THEN [st.px EXCEPT ![dest1] = Ink(w, st.px[dest1])]
                  ELSE st.px]

\* one pass of the loop over the major axis; st holds x, y (the error terms),
\* dx, dy (the current point), dest (the pointer) and px (the buffer)
LineStep(bmp, ln, w, st) ==
    LET xmajor == ln.delta_x_abs >= ln.delta_y_abs
        err    == IF xmajor THEN st.y + ln.delta_y_abs ELSE st.x + ln.delta_x_abs
        carry  == IF xmajor THEN err >= ln.delta_x_abs ELSE err >= ln.delta_y_abs
        dx     == IF xmajor \/ carry THEN st.dx + ln.delta_x_sign ELSE st.dx
        dy     == IF ~xmajor \/ carry THEN st.dy + ln.delta_y_sign ELSE st.dy
        dest1  == st.dest + (IF xmajor \/ carry THEN ln.offset_x_inc ELSE 0)
                          + (IF ~xmajor \/ carry THEN ln.offset_y_inc ELSE 0)
    IN  [x    |-> IF xmajor THEN st.x
                  ELSE IF carry THEN err - ln.delta_y_abs ELSE err,
         y    |-> IF ~xmajor THEN st.y
                  ELSE IF carry THEN err - ln.delta_x_abs ELSE err,
         dx   |-> dx, dy |-> dy, dest |-> dest1,
         px   |-> IF is_xy_visible(bmp, dx, dy)
                  THEN [st.px EXCEPT ![dest1] = Ink(w, st.px[dest1])]
                  ELSE st.px]

RECURSIVE LineLoop(_, _, _, _, _)
LineLoop(bmp, ln, w, n, st) ==
    IF n = 0 THEN st.px
    ELSE LineLoop(bmp, ln, w, n - 1, LineStep(bmp, ln, w, st))

LineWith(bmp, x1, y1, x2, y2, w) ==
    LET ln   == LineArgs(bmp, x1, y1, x2, y2)
        ptr  == pixels_at_ptr_unchecked(bmp, x1, y1)
        px0  == IF is_xy_visible(bmp, x1, y1)
                THEN [bmp.pixels EXCEPT ![ptr] = Ink(w, bmp.pixels[ptr])]
                ELSE bmp.pixels
    IN  [bmp EXCEPT !.pixels =
            LineLoop(bmp, ln, w, Max2(ln.delta_x_abs, ln.delta_y_abs),
                     [x |-> ln.delta_x_abs \div 2, y |-> ln.delta_y_abs \div 2,
                      dx |-> x1, dy |-> y1, dest |-> ptr, px |-> px0])]

\* the loop's locals (the running point, the pointer, the error terms and the
\* buffer) after the first point and after each pass, in the order visited
RECURSIVE LineTrace(_, _, _, _, _)
LineTrace(bmp, ln, w, n, st) ==
    IF n = 0 THEN <<st>>
    ELSE <<st>> \o LineTrace(bmp, ln, w, n - 1, LineStep(bmp, ln, w, st))

LineVisited(bmp, x1, y1, x2, y2, w) ==
    LET ln   == LineArgs(bmp, x1, y1, x2, y2)
        ptr  == pixels_at_ptr_unchecked(bmp, x1, y1)
        px0  == IF is_xy_visible(bmp, x1, y1)
                THEN [bmp.pixels EXCEPT ![ptr] = Ink(w, bmp.pixels[ptr])]
                ELSE bmp.pixels
    IN  LineTrace(bmp, ln, w, Max2(ln.delta_x_abs, ln.delta_y_abs),
                  [x |-> ln.delta_x_abs \div 2, y |-> ln.delta_y_abs \div 2,
                   dx |-> x1, dy |-> y1, dest |-> ptr, px |-> px0])

line(bmp, x1, y1, x2, y2, color) == LineWith(bmp, x1, y1, x2, y2, Flat(color))

\* blended_line without the fall back to line
blended_line_NoFallback(bmp, x1, y1, x2, y2, color, blend_map) ==
    IF get_mapping(blend_map, color).some
    THEN LineWith(bmp, x1, y1, x2, y2, Blended(get_mapping(blend_map, color).mapping))
    ELSE bmp

blended_line(bmp, x1, y1, x2, y2, color, blend_map) ==
    IF get_mapping(blend_map, color).some
    THEN LineWith(bmp, x1, y1, x2, y2, Blended(get_mapping(blend_map, color).mapping))
    ELSE line(bmp, x1, y1, x2, y2, color)

HorizLineWith(bmp, x1, x2, y, w) ==
    LET c == clamp_to(from_coords(x1, y, x2, y), bmp.clip_region)
    IN  IF c.ok
        THEN [bmp EXCEPT !.pixels =
                 FillRow(bmp.pixels, pixels_at_ptr_unchecked(bmp, c.rect.x, c.rect.y),
                         c.rect.width, w)]
        ELSE bmp

\* horiz_line with the region left as the caller gave it
horiz_line_Unclamped(bmp, x1, x2, y, color) ==
    LET r == from_coords(x1, y, x2, y)
    IN  [bmp EXCEPT !.pixels =
            FillRow(bmp.pixels, pixels_at_ptr_unchecked(bmp, r.x, r.y), r.width,
                    Flat(color))]

horiz_line(bmp, x1, x2, y, color) == HorizLineWith(bmp, x1, x2, y, Flat(color))

blended_horiz_line(bmp, x1, x2, y, color, blend_map) ==
    IF get_mapping(blend_map, color).some
    THEN HorizLineWith(bmp, x1, x2, y, Blended(get_mapping(blend_map, color).mapping))
    ELSE horiz_line(bmp, x1, x2, y, color)

VertLineWith(bmp, x, y1, y2, w) ==
    LET c == clamp_to(from_coords(x, y1, x, y2), bmp.clip_region)
    IN  IF c.ok
        THEN [bmp EXCEPT !.pixels =
                 FillColumn(bmp.pixels, pixels_at_ptr_unchecked(bmp, c.rect.x, c.rect.y),
                            c.rect.height, bmp.width, w)]
        ELSE bmp

\* vert_line leaving the clip region set to the column it drew
vert_line_SetsClip(bmp, x, y1, y2, color) ==
    [VertLineWith(bmp, x, y1, y2, Flat(color)) EXCEPT
        !.clip_region = clamp_to(from_coords(x, y1, x, y2), bmp.clip_region).rect]

vert_line(bmp, x, y1, y2, color) == VertLineWith(bmp, x, y1, y2, Flat(color))

blended_vert_line(bmp, x, y1, y2, color, blend_map) ==
    IF get_mapping(blend_map, color).some
    THEN VertLineWith(bmp, x, y1, y2, Blended(get_mapping(blend_map, color).mapping))
    ELSE vert_line(bmp, x, y1, y2, color)

\* RectEdges drawing all four edges of the clamped region, moved or not
RectEdges_AtClipBoundary(bmp, c, w, x_from, x_to) ==
    LET at(x, y) == pixels_at_ptr_unchecked(bmp, x, y)
        top    == FillRow(bmp.pixels, at(c.region.x, c.region.y) + x_from,
                          x_to - x_from, w)
        bot    == FillRow(top, at(c.region.x, bottom(c.region)) + x_from,
                          x_to - x_from, w)
        left   == FillColumn(bot, at(c.region.x, c.region.y), c.region.height,
                             bmp.width, w)
        rightl == FillColumn(left, at(right(c.region), c.region.y), c.region.height,
                             bmp.width, w)
    IN  [bmp EXCEPT !.pixels = rightl]

\* rect / blended_rect: the four edges, each drawn only when clamping did not
\* move it.  c holds the swapped corners and the clamped region; the top and
\* bottom lines cover the columns x_from .. x_to - 1 of the region.
RectEdges(bmp, c, w, x_from, x_to) ==
    LET at(x, y) == pixels_at_ptr_unchecked(bmp, x, y)
        top    == IF c.y1 = c.region.y
                  THEN FillRow(bmp.pixels, at(c.region.x, c.region.y) + x_from,
                               x_to - x_from, w)
                  ELSE bmp.pixels
        bot    == IF c.y2 = bottom(c.region)
                  THEN FillRow(top, at(c.region.x, bottom(c.region)) + x_from,
                               x_to - x_from, w)
                  ELSE top
        left   == IF c.x1 = c.region.x
                  THEN FillColumn(bot, at(c.region.x, c.region.y), c.region.height,
                                  bmp.width, w)
                  ELSE bot
        rightl == IF c.x2 = right(c.region)
                  THEN FillColumn(left, at(right(c.region), c.region.y), c.region.height,
                                  bmp.width, w)
                  ELSE left
    IN  [bmp EXCEPT !.pixels = rightl]

\* the corners after the two swaps, and the region they span clamped to the
\* clip region
RectCorners(bmp, x1, y1, x2, y2) ==
    LET c == clamp_to(Rect(Min2(x1, x2), Min2(y1, y2),
                           AsU32(Max2(x1, x2) - Min2(x1, x2) + 1),
                           AsU32(Max2(y1, y2) - Min2(y1, y2) + 1)),
                      bmp.clip_region)
    IN  [x1 |-> Min2(x1, x2), y1 |-> Min2(y1, y2), x2 |-> Max2(x1, x2),
         y2 |-> Max2(y1, y2), ok |-> c.ok, region |-> c.rect]

rect(bmp, x1, y1, x2, y2, color) ==
    LET c == RectCorners(bmp, x1, y1, x2, y2)
    IN  IF ~c.ok THEN bmp
        ELSE RectEdges(bmp, c, Flat(color), 0, c.region.width)

blended_rect(bmp, x1, y1, x2, y2, color, blend_map) ==
    IF get_mapping(blend_map, color).some
    THEN LET c == RectCorners(bmp, x1, y1, x2, y2)
         IN  IF ~c.ok THEN bmp
             ELSE RectEdges(bmp, c, Blended(get_mapping(blend_map, color).mapping),
                            1, c.region.width - 1)
    ELSE rect(bmp, x1, y1, x2, y2, color)

FilledRectWith(bmp, x1, y1, x2, y2, w) ==
    LET c == clamp_to(from_coords(x1, y1, x2, y2), bmp.clip_region)
    IN  IF c.ok
        THEN [bmp EXCEPT !.pixels =
                 FillBlock(bmp.pixels, pixels_at_ptr_unchecked(bmp, c.rect.x, c.rect.y),
                           c.rect.width, c.rect.height, bmp.width, w)]
        ELSE bmp

filled_rect(bmp, x1, y1, x2, y2, color) == FilledRectWith(bmp, x1, y1, x2, y2, Flat(color))

blended_filled_rect(bmp, x1, y1, x2, y2, color, blend_map) ==
    IF get_mapping(blend_map, color).some
    THEN FilledRectWith(bmp, x1, y1, x2, y2, Blended(get_mapping(blend_map, color).mapping))
    ELSE filled_rect(bmp, x1, y1, x2, y2, color)

\* CircleNext without the step of y towards the centre
CircleNext_KeepsY(st) ==
    [x |-> st.x + 1, y |-> st.y, m |-> st.m + 8 * (st.x + 1) + 4]

\* circle / filled_circle: the update of x, y and the decision variable m at
\* the end of a pass of `while x <= y`
CircleNext(st) ==
    LET y == IF st.m > 0 THEN st.y - 1 ELSE st.y
        m == IF st.m > 0 THEN st.m - 8 * y ELSE st.m
    IN  [x |-> st.x + 1, y |-> y, m |-> m + 8 * (st.x + 1) + 4]

\* the eight set_pixel calls of one pass
Plot8(bmp, cx, cy, x, y, color) ==
    set_pixel(set_pixel(set_pixel(set_pixel(
    set_pixel(set_pixel(set_pixel(set_pixel(bmp,
        cx + x, cy + y, color), cx + x, cy - y, color),
        cx - x, cy + y, color), cx - x, cy - y, color),
        cx + y, cy + x, color), cx + y, cy - x, color),
        cx - y, cy + x, color), cx - y, cy - x, color)

\* the four horiz_line calls of one pass
Span4(bmp, cx, cy, x, y, color) ==
    horiz_line(horiz_line(horiz_line(horiz_line(bmp,
        cx - x, cx + x, cy - y, color), cx - y, cx + y, cy - x, color),
        cx - y, cx + y, cy + x, color), cx - x, cx + x, cy + y, color)

RECURSIVE CircleLoop(_, _, _, _, _, _)
CircleLoop(bmp, filled, cx, cy, color, st) ==
    IF st.x > st.y THEN bmp
    ELSE LET drawn == IF filled THEN Span4(bmp, cx, cy, st.x, st.y, color)
                      ELSE Plot8(bmp, cx, cy, st.x, st.y, color)
         IN  IF drawn.pixels = bmp.pixels
             THEN CircleLoop(bmp, filled, cx, cy, color, CircleNext(st))
             ELSE CircleLoop(drawn, filled, cx, cy, color, CircleNext(st))

circle(bmp, center_x, center_y, radius, color) ==
    CircleLoop(bmp, FALSE, center_x, center_y, color,
               [x |-> 0, y |-> AsI32(radius), m |-> 5 - 4 * AsI32(radius)])

filled_circle(bmp, center_x, center_y, radius, color) ==
    CircleLoop(bmp, TRUE, center_x, center_y, color,
               [x |-> 0, y |-> AsI32(radius), m |-> 5 - 4 * AsI32(radius)])

\* the locals x, y and m at the start of each pass of `while x <= y`, in order
RECURSIVE CircleTrace(_)
CircleTrace(st) ==
    IF st.x > st.y THEN <<>> ELSE <<st>> \o CircleTrace(CircleNext(st))

CirclePasses(radius) ==
    CircleTrace([x |-> 0, y |-> AsI32(radius), m |-> 5 - 4 * AsI32(radius)])

(***************************************************************************)
(* SpecPixel: one pixel write on a bitmap with any of the clip regions,    *)
(* then one pixel read.  The unchecked accessors are called with           *)
(* coordinates inside the bitmap only (their precondition).                *)
(***************************************************************************)
PrimMargin == 1     \* coordinates reach PrimMargin pixels outside the bitmap
MaxRadius  == 12    \* circle radius in 0..MaxRadius

PrimXs == (0 - PrimMargin) .. (DestW - 1 + PrimMargin)
PrimYs == (0 - PrimMargin) .. (DestH - 1 + PrimMargin)
BitmapXs == 0 .. (DestW - 1)
BitmapYs == 0 .. (DestH - 1)
Radii == 0 .. MaxRadius

PrimColors == {7}

\* the table of a mapped colour: no byte is mapped to itself
BlendTable == [v \in Bytes |-> (v + 16) % ByteMod]
BlendMapOf(colors) == [c \in colors |-> BlendTable]
BlendMaps == {BlendMapOf({}), BlendMapOf(PrimColors)}

InitPrim ==
    /\ cb = IdleClip
    /\ dest \in DestBitmaps
    /\ src = SrcBitmap(0, FullRect(SrcW, SrcH))
    /\ call = IdleCall
    /\ fault = FALSE
    /\ prim = IdlePrim

\* a method drawing on dest has returned, leaving bmp
Drawn(op, args, color, mapped, bmp) ==
    /\ prim' = [pc |-> "done", op |-> op, args |-> args, color |-> color,
                mapped |-> mapped, before |-> dest.pixels, result |-> None,
                prev |-> prim]
    /\ dest' = bmp
    /\ UNCHANGED <<cb, src, call, fault>>

\* a method reading dest has returned value
Read(op, args, value) ==
    /\ prim' = [pc |-> "read", op |-> op, args |-> args, color |-> None,
                mapped |-> FALSE, before |-> dest.pixels, result |-> value,
                prev |-> prim]
    /\ UNCHANGED <<cb, dest, src, call, fault>>

CallSetPixel ==
    /\ prim.pc = "idle"
    /\ \E x \in PrimXs, y \in PrimYs, color \in PrimColors :
          Drawn("set_pixel", <<x, y>>, color, FALSE, set_pixel(dest, x, y, color))

CallSetBlendedPixel ==
    /\ prim.pc = "idle"
    /\ \E x \in PrimXs, y \in PrimYs, color \in PrimColors, bm \in BlendMaps :
          Drawn("set_blended_pixel", <<x, y>>, color, get_mapping(bm, color).some,
                set_blended_pixel(dest, x, y, color, bm))

CallSetPixelUnchecked ==
    /\ prim.pc = "idle"
    /\ \E x \in BitmapXs, y \in BitmapYs, color \in PrimColors :
          Drawn("set_pixel_unchecked", <<x, y>>, color, FALSE,
                set_pixel_unchecked(dest, x, y, color))

CallSetBlendedPixelUnchecked ==
    /\ prim.pc = "idle"
    /\ \E x \in BitmapXs, y \in BitmapYs, color \in PrimColors, bm \in BlendMaps :
          Drawn("set_blended_pixel_unchecked", <<x, y>>, color,
                get_mapping(bm, color).some,
                set_blended_pixel_unchecked(dest, x, y, color, bm))

CallGetPixel ==
    /\ prim.pc \in {"idle", "done"}
    /\ \E x \in PrimXs, y \in PrimYs : Read("get_pixel", <<x, y>>, get_pixel(dest, x, y))

CallGetPixelUnchecked ==
    /\ prim.pc \in {"idle", "done"}
    /\ \E x \in BitmapXs, y \in BitmapYs :
          Read("get_pixel_unchecked", <<x, y>>, get_pixel_unchecked(dest, x, y))

NextPixel ==
    \/ CallSetPixel
    \/ CallSetBlendedPixel
    \/ CallSetPixelUnchecked
    \/ CallSetBlendedPixelUnchecked
    \/ CallGetPixel
    \/ CallGetPixelUnchecked

SpecPixel == InitPrim /\ [][NextPixel]_vars

(***************************************************************************)
(* SpecPrim: one primitive drawn on a bitmap with any of the clip regions, *)
(* with coordinates inside and outside the bitmap.                         *)
(***************************************************************************)
CallLine ==
    /\ prim.pc = "idle"
    /\ \E x1 \in PrimXs, y1 \in PrimYs, x2 \in PrimXs, y2 \in PrimYs, color \in PrimColors :
          Drawn("line", <<x1, y1, x2, y2>>, color, FALSE, line(dest, x1, y1, x2, y2, color))

CallBlendedLine ==
    /\ prim.pc = "idle"
    /\ \E x1 \in PrimXs, y1 \in PrimYs, x2 \in PrimXs, y2 \in PrimYs,
          color \in PrimColors, bm \in BlendMaps :
          Drawn("blended_line", <<x1, y1, x2, y2>>, color, get_mapping(bm, color).some,
                blended_line(dest, x1, y1, x2, y2, color, bm))

CallHorizLine ==
    /\ prim.pc = "idle"
    /\ \E x1 \in PrimXs, x2 \in PrimXs, y \in PrimYs, color \in PrimColors :
          Drawn("horiz_line", <<x1, x2, y>>, color, FALSE, horiz_line(dest, x1, x2, y, color))

CallBlendedHorizLine ==
    /\ prim.pc = "idle"
    /\ \E x1 \in PrimXs, x2 \in PrimXs, y \in PrimYs, color \in PrimColors, bm \in BlendMaps :
          Drawn("blended_horiz_line", <<x1, x2, y>>, color, get_mapping(bm, color).some,
                blended_horiz_line(dest, x1, x2, y, color, bm))

CallVertLine ==
    /\ prim.pc = "idle"
    /\ \E x \in PrimXs, y1 \in PrimYs, y2 \in PrimYs, color \in PrimColors :
          Drawn("vert_line", <<x, y1, y2>>, color, FALSE, vert_line(dest, x, y1, y2, color))

CallBlendedVertLine ==
    /\ prim.pc = "idle"
    /\ \E x \in PrimXs, y1 \in PrimYs, y2 \in PrimYs, color \in PrimColors, bm \in BlendMaps :
          Drawn("blended_vert_line", <<x, y1, y2>>, color, get_mapping(bm, color).some,
                blended_vert_line(dest, x, y1, y2, color, bm))

CallRect ==
    /\ prim.pc = "idle"
    /\ \E x1 \in PrimXs, y1 \in PrimYs, x2 \in PrimXs, y2 \in PrimYs, color \in PrimColors :
          Drawn("rect", <<x1, y1, x2, y2>>, color, FALSE, rect(dest, x1, y1, x2, y2, color))

CallBlendedRect ==
    /\ prim.pc = "idle"
    /\ \E x1 \in PrimXs, y1 \in PrimYs, x2 \in PrimXs, y2 \in PrimYs,
          color \in PrimColors, bm \in BlendMaps :
          Drawn("blended_rect", <<x1, y1, x2, y2>>, color, get_mapping(bm, color).some,
                blended_rect(dest, x1, y1, x2, y2, color, bm))

CallFilledRect ==
    /\ prim.pc = "idle"
    /\ \E x1 \in PrimXs, y1 \in PrimYs, x2 \in PrimXs, y2 \in PrimYs, color \in PrimColors :
          Drawn("filled_rect", <<x1, y1, x2, y2>>, color, FALSE,
                filled_rect(dest, x1, y1, x2, y2, color))

CallBlendedFilledRect ==
    /\ prim.pc = "idle"
    /\ \E x1 \in PrimXs, y1 \in PrimYs, x2 \in PrimXs, y2 \in PrimYs,
          color \in PrimColors, bm \in BlendMaps :
          Drawn("blended_filled_rect", <<x1, y1, x2, y2>>, color,
                get_mapping(bm, color).some,
                blended_filled_rect(dest, x1, y1, x2, y2, color, bm))

CallCircle ==
    /\ prim.pc = "idle"
    /\ \E cx \in PrimXs, cy \in PrimYs, radius \in Radii, color \in PrimColors :
          Drawn("circle", <<cx, cy, radius>>, color, FALSE,
                circle(dest, cx, cy, radius, color))

CallFilledCircle ==
    /\ prim.pc = "idle"
    /\ \E cx \in PrimXs, cy \in PrimYs, radius \in Radii, color \in PrimColors :
          Drawn("filled_circle", <<cx, cy, radius>>, color, FALSE,
                filled_circle(dest, cx, cy, radius, color))

NextPrim ==
    \/ CallSetPixel
    \/ CallSetBlendedPixel
    \/ CallLine
    \/ CallBlendedLine
    \/ CallHorizLine
    \/ CallBlendedHorizLine
    \/ CallVertLine
    \/ CallBlendedVertLine
    \/ CallRect
    \/ CallBlendedRect
    \/ CallFilledRect
    \/ CallBlendedFilledRect
    \/ CallCircle
    \/ CallFilledCircle

SpecPrim == InitPrim /\ [][NextPrim]_vars

(***************************************************************************)
(* SpecFrame: sequences of drawing calls on one destination bitmap: a blit *)
(* from the source bitmap and up to MaxDraws primitives, in any order.  A  *)
(* call that faulted does not return, so nothing follows it.               *)
(* prim counts the primitives drawn and keeps the destination's clip       *)
(* region, width and height and the source bitmap as they were before the  *)
(* first call.                                                             *)
(***************************************************************************)
MaxDraws == 2

FrameClips == {FullRect(DestW, DestH), Rect(1, 1, DestW - 1, DestH - 1)}

\* two corner points each: across the bitmap from outside its left edge, and
\* inside it in reverse order
FrameArgs == {<<0 - 1, 0, DestW - 1, DestH - 1>>, <<DestW - 2, DestH - 1, 1, 0>>}
FrameRadii == {1}
FrameBlendMaps == {BlendMapOf(PrimColors)}
FrameMethods ==
    {Solid, RotoZoom(0, 2, 2)}

InitFrame ==
    /\ cb = IdleClip
    /\ dest \in {d \in DestBitmaps : d.clip_region \in FrameClips}
    /\ src = SrcBitmap(0, FullRect(SrcW, SrcH))
    /\ call = IdleCall
    /\ fault = FALSE
    /\ prim = [pc |-> "idle", op |-> "none", calls |-> 0,
               clip_region |-> dest.clip_region, width |-> dest.width,
               height |-> dest.height, src |-> src]

FrameReady == ~fault /\ prim.calls < MaxDraws

\* primitive op has returned, leaving bmp
FrameDrawn(op, bmp) ==
    /\ prim' = [prim EXCEPT !.pc = "done", !.op = op, !.calls = @ + 1]
    /\ dest' = bmp
    /\ UNCHANGED <<cb, src, call, fault>>

FrameBlit ==
    /\ ~fault /\ call.pc = "idle"
    /\ \E method \in FrameMethods, a \in FrameArgs : Blit(method, a[1], a[2])

FrameBlitRegion ==
    /\ ~fault /\ call.pc = "idle"
    /\ \E method \in FrameMethods, a \in FrameArgs :
          BlitRegion(method, Rect(1, 0, SrcW - 1, SrcH), a[1], a[2])

FrameSetPixel ==
    /\ FrameReady
    /\ \E a \in FrameArgs, color \in PrimColors :
          FrameDrawn("set_pixel", set_pixel(dest, a[3], a[4], color))

FrameSetBlendedPixel ==
    /\ FrameReady
    /\ \E a \in FrameArgs, color \in PrimColors, bm \in FrameBlendMaps :
          FrameDrawn("set_blended_pixel", set_blended_pixel(dest, a[3], a[4], color, bm))

FrameLine ==
    /\ FrameReady
    /\ \E a \in FrameArgs, color \in PrimColors :
          FrameDrawn("line", line(dest, a[1], a[2], a[3], a[4], color))

FrameBlendedLine ==
    /\ FrameReady
    /\ \E a \in FrameArgs, color \in PrimColors, bm \in FrameBlendMaps :
          FrameDrawn("blended_line", blended_line(dest, a[1], a[2], a[3], a[4], color, bm))

FrameHorizLine ==
    /\ FrameReady
    /\ \E a \in FrameArgs, color \in PrimColors :
          FrameDrawn("horiz_line", horiz_line(dest, a[1], a[3], a[4], color))

FrameBlendedHorizLine ==
    /\ FrameReady
    /\ \E a \in FrameArgs, color \in PrimColors, bm \in FrameBlendMaps :
          FrameDrawn("blended_horiz_line",
                     blended_horiz_line(dest, a[1], a[3], a[4], color, bm))

FrameVertLine ==
    /\ FrameReady
    /\ \E a \in FrameArgs, color \in PrimColors :
          FrameDrawn("vert_line", vert_line(dest, a[3], a[2], a[4], color))

FrameBlendedVertLine ==
    /\ FrameReady
    /\ \E a \in FrameArgs, color \in PrimColors, bm \in FrameBlendMaps :
          FrameDrawn("blended_vert_line",
                     blended_vert_line(dest, a[3], a[2], a[4], color, bm))

FrameRect ==
    /\ FrameReady
    /\ \E a \in FrameArgs, color \in PrimColors :
          FrameDrawn("rect", rect(dest, a[1], a[2], a[3], a[4], color))

FrameBlendedRect ==
    /\ FrameReady
    /\ \E a \in FrameArgs, color \in PrimColors, bm \in FrameBlendMaps :
          FrameDrawn("blended_rect", blended_rect(dest, a[1], a[2], a[3], a[4], color, bm))

FrameFilledRect ==
    /\ FrameReady
    /\ \E a \in FrameArgs, color \in PrimColors :
          FrameDrawn("filled_rect", filled_rect(dest, a[1], a[2], a[3], a[4], color))

FrameBlendedFilledRect ==
    /\ FrameReady
    /\ \E a \in FrameArgs, color \in PrimColors, bm \in FrameBlendMaps :
          FrameDrawn("blended_filled_rect",
                     blended_filled_rect(dest, a[1], a[2], a[3], a[4], color, bm))

FrameCircle ==
    /\ FrameReady
    /\ \E a \in FrameArgs, radius \in FrameRadii, color \in PrimColors :
          FrameDrawn("circle", circle(dest, a[3], a[4], radius, color))

FrameFilledCircle ==
    /\ FrameReady
    /\ \E a \in FrameArgs, radius \in FrameRadii, color \in PrimColors :
          FrameDrawn("filled_circle", filled_circle(dest, a[3], a[4], radius, color))

NextFrame ==
    \/ FrameBlit
    \/ FrameBlitRegion
    \/ FrameSetPixel
    \/ FrameSetBlendedPixel
    \/ FrameLine
    \/ FrameBlendedLine
    \/ FrameHorizLine
    \/ FrameBlendedHorizLine
    \/ FrameVertLine
    \/ FrameBlendedVertLine
    \/ FrameRect
    \/ FrameBlendedRect
    \/ FrameFilledRect
    \/ FrameBlendedFilledRect
    \/ FrameCircle
    \/ FrameFilledCircle

SpecFrame == InitFrame /\ [][NextFrame]_vars

(***************************************************************************)
(* Properties of clip_blit (checked under SpecClip).                       *)
(* The requested destination rectangle is [dest_x, dest_x + width) x       *)
(* [dest_y, dest_y + height); the clip rectangle covers                    *)
(* [clip.x, clip.x + clip.width) x [clip.y, clip.y + clip.height).         *)
(***************************************************************************)
ClipDone == cb.pc = "done"

\* the requested rectangle lies entirely inside the clip rectangle
ReqInsideClip ==
    /\ cb.clip.x <= cb.dest_x
    /\ cb.dest_x + cb.src.width <= cb.clip.x + cb.clip.width
    /\ cb.clip.y <= cb.dest_y
    /\ cb.dest_y + cb.src.height <= cb.clip.y + cb.clip.height

\* the intersection of the requested rectangle with the clip rectangle
IsectLeft   == Max2(cb.dest_x, cb.clip.x)
IsectTop    == Max2(cb.dest_y, cb.clip.y)
IsectRight  == Min2(cb.dest_x + cb.src.width, cb.clip.x + cb.clip.width)    \* exclusive
IsectBottom == Min2(cb.dest_y + cb.src.height, cb.clip.y + cb.clip.height)  \* exclusive
IsectNonEmpty == IsectLeft < IsectRight /\ IsectTop < IsectBottom

\* the resulting destination rectangle lies inside the clip rectangle
OutInsideClip ==
    /\ cb.clip.x <= cb.out.dest_x
    /\ cb.out.dest_x + cb.out.src.width <= cb.clip.x + cb.clip.width
    /\ cb.clip.y <= cb.out.dest_y
    /\ cb.out.dest_y + cb.out.src.height <= cb.clip.y + cb.clip.height

\* C1: a requested rectangle fully inside the clip rectangle (whose x, y may
\* be non-zero) makes clip_blit return true and leaves the source region,
\* dest_x and dest_y unchanged.
C1_InsideClipUnchanged ==
    (ClipDone /\ ReqInsideClip) =>
        /\ cb.out.ret
        /\ cb.out.src = cb.src
        /\ cb.out.dest_x = cb.dest_x
        /\ cb.out.dest_y = cb.dest_y

\* The same statement for clip rectangles whose origin is (0, 0).
InsideClipAtOriginUnchanged ==
    (ClipDone /\ ReqInsideClip /\ cb.clip.x = 0 /\ cb.clip.y = 0) =>
        /\ cb.out.ret
        /\ cb.out.src = cb.src
        /\ cb.out.dest_x = cb.dest_x
        /\ cb.out.dest_y = cb.dest_y

\* C2: whenever clip_blit returns true the resulting region has width >= 1
\* and height >= 1 (no negative value wrapped into the unsigned fields) and
\* the resulting destination rectangle lies entirely inside the clip rectangle.
C2_TrueImpliesInsideClip ==
    (ClipDone /\ cb.out.ret) =>
        /\ cb.out.src.width >= 1 /\ cb.out.src.width < U32Mod \div 2
        /\ cb.out.src.height >= 1 /\ cb.out.src.height < U32Mod \div 2
        /\ OutInsideClip

\* The same statement for clip rectangles whose origin is (0, 0).
TrueImpliesInsideClipAtOrigin ==
    (cb.clip.x = 0 /\ cb.clip.y = 0) => C2_TrueImpliesInsideClip

\* C3: clip_blit returns false exactly when the requested rectangle and the
\* clip rectangle share no pixel, and on true the resulting destination
\* rectangle is their intersection.
C3_ExactIntersection ==
    ClipDone =>
        /\ cb.out.ret <=> IsectNonEmpty
        /\ cb.out.ret =>
              /\ cb.out.dest_x = IsectLeft
              /\ cb.out.dest_y = IsectTop
              /\ cb.out.dest_x + cb.out.src.width = IsectRight
              /\ cb.out.dest_y + cb.out.src.height = IsectBottom

\* The same statement for clip rectangles whose origin is (0, 0).
ExactIntersectionAtOrigin ==
    (cb.clip.x = 0 /\ cb.clip.y = 0) => C3_ExactIntersection

\* C4: on true the source/destination correspondence is preserved
\* (dest_x - src.x and dest_y - src.y keep their values), the resulting source
\* region is contained in the original one, and a left (top) clip advances
\* src.x and dest_x (src.y and dest_y) by clip.x - dest_x (clip.y - dest_y)
\* and reduces the width (height) by the same amount.
C4_Correspondence ==
    (ClipDone /\ cb.out.ret) =>
        /\ cb.out.dest_x - cb.out.src.x = cb.dest_x - cb.src.x
        /\ cb.out.dest_y - cb.out.src.y = cb.dest_y - cb.src.y
        /\ cb.src.x <= cb.out.src.x
        /\ cb.out.src.x + cb.out.src.width <= cb.src.x + cb.src.width
        /\ cb.src.y <= cb.out.src.y
        /\ cb.out.src.y + cb.out.src.height <= cb.src.y + cb.src.height
        /\ cb.dest_x < cb.clip.x =>
              /\ cb.out.src.x = cb.src.x + (cb.clip.x - cb.dest_x)
              /\ cb.out.dest_x = cb.dest_x + (cb.clip.x - cb.dest_x)
              /\ ClipLeft(cb.clip, ClipState(TRUE, cb.src, cb.dest_x, cb.dest_y)).src.width
                    = cb.src.width - (cb.clip.x - cb.dest_x)
        /\ cb.dest_y < cb.clip.y =>
              /\ cb.out.src.y = cb.src.y + (cb.clip.y - cb.dest_y)
              /\ cb.out.dest_y = cb.dest_y + (cb.clip.y - cb.dest_y)
              /\ ClipTop(cb.clip, ClipState(TRUE, cb.src, cb.dest_x, cb.dest_y)).src.height
                    = cb.src.height - (cb.clip.y - cb.dest_y)

\* The same statement for clip rectangles whose origin is (0, 0).
CorrespondenceAtOrigin ==
    (cb.clip.x = 0 /\ cb.clip.y = 0) => C4_Correspondence

\* The part of the statement that does not depend on the width and height
\* computed by the right and bottom edge checks.
CorrespondenceOffsets ==
    (ClipDone /\ cb.out.ret) =>
        /\ cb.out.dest_x - cb.out.src.x = cb.dest_x - cb.src.x
        /\ cb.out.dest_y - cb.out.src.y = cb.dest_y - cb.src.y
        /\ cb.src.x <= cb.out.src.x
        /\ cb.src.y <= cb.out.src.y

\* C5: clip_blit returns false whenever the requested rectangle lies entirely
\* left of, right of, above or below the clip rectangle (clip.x, clip.y >= 0,
\* source width and height >= 1).
C5_OutsideReturnsFalse ==
    (/\ ClipDone
     /\ \/ cb.dest_x <= cb.clip.x - cb.src.width
        \/ cb.dest_x > right(cb.clip)
        \/ cb.dest_y <= cb.clip.y - cb.src.height
        \/ cb.dest_y > bottom(cb.clip))
    => ~cb.out.ret

\* a call whose rectangle overlaps the clip rectangle's columns but lies
\* entirely below it has returned false
C5_Witness ==
    /\ ClipDone
    /\ cb.clip.x <= cb.dest_x /\ cb.dest_x <= right(cb.clip)
    /\ cb.clip.x > 0 /\ cb.clip.y > 0
    /\ cb.dest_y > bottom(cb.clip)
    /\ ~cb.out.ret

\* C6: a requested rectangle that starts inside the clip rectangle and extends
\* past its right (bottom) edge makes clip_blit return true, leaves dest_x,
\* dest_y, src.x and src.y unchanged and reduces the width to
\* clip.right() + 1 - dest_x (the height to clip.bottom() + 1 - dest_y).
C6_RightBottomOverflow ==
    (/\ ClipDone
     /\ cb.clip.x <= cb.dest_x /\ cb.dest_x <= right(cb.clip)
     /\ cb.clip.y <= cb.dest_y /\ cb.dest_y <= bottom(cb.clip)
     /\ \/ cb.dest_x + cb.src.width > right(cb.clip) + 1
        \/ cb.dest_y + cb.src.height > bottom(cb.clip) + 1)
    =>
        /\ cb.out.ret
        /\ cb.out.dest_x = cb.dest_x /\ cb.out.dest_y = cb.dest_y
        /\ cb.out.src.x = cb.src.x /\ cb.out.src.y = cb.src.y
        /\ cb.out.src.width =
              IF cb.dest_x + cb.src.width > right(cb.clip) + 1
              THEN right(cb.clip) + 1 - cb.dest_x ELSE cb.src.width
        /\ cb.out.src.height =
              IF cb.dest_y + cb.src.height > bottom(cb.clip) + 1
              THEN bottom(cb.clip) + 1 - cb.dest_y ELSE cb.src.height

\* The same statement for clip rectangles whose origin is (0, 0).
RightBottomOverflowAtOrigin ==
    (cb.clip.x = 0 /\ cb.clip.y = 0) => C6_RightBottomOverflow

(***************************************************************************)
(* Properties of the checked blit (checked under Spec and SpecOffset).     *)
(***************************************************************************)
BlitDone == call.pc = "done"

\* the transfer routine ran on a region inside both buffers
Transferred ==
    /\ BlitDone /\ call.invoked
    /\ XferInBounds(dest, src, call.region, call.x, call.y)

PixelX(bmp, i) == i % bmp.width
PixelY(bmp, i) == i \div bmp.width
PixelAt(bmp, x, y) == bmp.pixels[y * bmp.width + x]

\* (x, y) lies in the rectangle with top-left (rx, ry) and size w x h
InRect(x, y, rx, ry, w, h) == rx <= x /\ x < rx + w /\ ry <= y /\ y < ry + h

InClip(bmp, x, y) ==
    InRect(x, y, bmp.clip_region.x, bmp.clip_region.y,
           bmp.clip_region.width, bmp.clip_region.height)

\* (x, y) lies in the rectangle the caller asked to blit to
InRequested(x, y) ==
    InRect(x, y, call.dest_x, call.dest_y, call.src_region.width, call.src_region.height)

\* the caller's source region lies inside the source bitmap's clip region
SrcRegionInSrcClip ==
    /\ src.clip_region.x <= call.src_region.x
    /\ call.src_region.x + call.src_region.width <= src.clip_region.x + src.clip_region.width
    /\ src.clip_region.y <= call.src_region.y
    /\ call.src_region.y + call.src_region.height <= src.clip_region.y + src.clip_region.height

\* the requested rectangle lies inside the destination clip region
RequestedInDestClip ==
    /\ dest.clip_region.x <= call.dest_x
    /\ call.dest_x + call.src_region.width <= dest.clip_region.x + dest.clip_region.width
    /\ dest.clip_region.y <= call.dest_y
    /\ call.dest_y + call.src_region.height <= dest.clip_region.y + dest.clip_region.height

\* C7: a checked blit with a non-rotozoom method changes only destination
\* pixels that lie inside both the destination clip region and the requested
\* rectangle (so nothing when the two do not meet), and never hands the
\* transfer routine a region that reaches outside the destination buffer.
C7_CheckedBlitConfined ==
    (BlitDone /\ ~IsRotoZoom(call.method)) =>
        /\ ~fault
        /\ \A i \in DOMAIN dest.pixels :
              dest.pixels[i] # call.before[i] =>
                 /\ InClip(dest, PixelX(dest, i), PixelY(dest, i))
                 /\ InRequested(PixelX(dest, i), PixelY(dest, i))

\* What does hold of the code: whenever the transfer routine was handed a
\* region inside the buffers, only pixels inside the clip region and the
\* requested rectangle changed.
ConfinedWhenInBounds ==
    (BlitDone /\ ~IsRotoZoom(call.method) /\ ~fault) =>
        \A i \in DOMAIN dest.pixels :
            dest.pixels[i] # call.before[i] =>
               /\ InClip(dest, PixelX(dest, i), PixelY(dest, i))
               /\ InRequested(PixelX(dest, i), PixelY(dest, i))

\* C8: a Solid blit_region of a region of the source (inside the source clip
\* region) whose rectangle at (dest_x, dest_y) lies fully inside the
\* destination clip region leaves source pixel (src_region.x + i,
\* src_region.y + j) at destination pixel (dest_x + i, dest_y + j) and every
\* destination pixel outside the rectangle as it was.
C8_SolidCopiesRegion ==
    (/\ BlitDone /\ call.method.tag = "Solid"
     /\ SrcRegionInSrcClip /\ RequestedInDestClip)
    =>
        \A i \in DOMAIN dest.pixels :
            dest.pixels[i] =
               IF InRequested(PixelX(dest, i), PixelY(dest, i))
               THEN PixelAt(src, call.src_region.x + (PixelX(dest, i) - call.dest_x),
                                 call.src_region.y + (PixelY(dest, i) - call.dest_y))
               ELSE call.before[i]

\* The same statement for destination clip regions whose origin is (0, 0).
SolidCopiesRegionAtOrigin ==
    (dest.clip_region.x = 0 /\ dest.clip_region.y = 0) => C8_SolidCopiesRegion

\* C9: after a Transparent(T) or TransparentSingle{T, draw_color} transfer,
\* each destination pixel of the blitted rectangle whose source pixel equals
\* T has its previous value, and each other pixel of the rectangle has the
\* source pixel (Transparent) or draw_color (TransparentSingle).
C9_TransparentSkips ==
    (Transferred /\ call.method.tag \in {"Transparent", "TransparentSingle"}) =>
        \A i \in 0..(call.region.width - 1), j \in 0..(call.region.height - 1) :
            LET pixel == PixelAt(src, call.region.x + i, call.region.y + j)
                at    == (call.y + j) * dest.width + (call.x + i)
            IN  dest.pixels[at] =
                   IF pixel = call.method.transparent_color THEN call.before[at]
                   ELSE IF call.method.tag = "Transparent" THEN pixel
                   ELSE call.method.draw_color

\* a transparent blit has both skipped a source pixel equal to T and written
\* one that is not
C9_Witness ==
    /\ Transferred /\ call.method.tag \in {"Transparent", "TransparentSingle"}
    /\ \E i \in 0..(call.region.width - 1), j \in 0..(call.region.height - 1) :
          /\ PixelAt(src, call.region.x + i, call.region.y + j)
                = call.method.transparent_color
          /\ PixelAt(dest, call.x + i, call.y + j)
                = call.before[(call.y + j) * dest.width + (call.x + i)]
    /\ \E i \in 0..(call.region.width - 1), j \in 0..(call.region.height - 1) :
          /\ PixelAt(src, call.region.x + i, call.region.y + j)
                # call.method.transparent_color
          /\ PixelAt(dest, call.x + i, call.y + j)
                # call.before[(call.y + j) * dest.width + (call.x + i)]

\* the source pixel a (possibly flipped) transfer reads for the pixel it
\* writes at column i, row j of the blitted rectangle
FlippedSource(i, j) ==
    PixelAt(src,
            IF call.method.horizontal_flip THEN right(call.region) - i ELSE call.region.x + i,
            IF call.method.vertical_flip THEN bottom(call.region) - j ELSE call.region.y + j)

\* C10: every pixel written by SolidOffset / SolidFlippedOffset is
\* (source pixel + offset) mod 256, for every source byte and every offset.
C10_OffsetWraps ==
    (Transferred /\ call.method.tag \in {"SolidOffset", "SolidFlippedOffset"}) =>
        \A i \in 0..(call.region.width - 1), j \in 0..(call.region.height - 1) :
            PixelAt(dest, call.x + i, call.y + j)
               = (FlippedSource(i, j) + call.method.offset) % ByteMod

\* an offset blit has written a pixel whose sum passed 255 and wrapped
C10_Witness ==
    /\ Transferred /\ call.method.tag \in {"SolidOffset", "SolidFlippedOffset"}
    /\ \E i \in 0..(call.region.width - 1), j \in 0..(call.region.height - 1) :
          /\ FlippedSource(i, j) + call.method.offset >= ByteMod
          /\ PixelAt(dest, call.x + i, call.y + j)
                = FlippedSource(i, j) + call.method.offset - ByteMod

(***************************************************************************)
(* Flipped blits, repeated blits, the dispatcher's clipping rule and       *)
(* clipped blits (checked under Spec and SpecTwice).                       *)
(***************************************************************************)
FlippedTags ==
    {"SolidFlipped", "TransparentFlipped", "TransparentFlippedSingle",
     "SolidFlippedOffset", "TransparentFlippedOffset"}

UnflippedTags ==
    {"Solid", "Transparent", "SolidOffset", "TransparentOffset", "TransparentSingle"}

\* the pixel of the caller's source region that belongs at column i, row j of
\* the requested rectangle: column right() - i under a horizontal flip, row
\* bottom() - j under a vertical flip
MirroredSource(i, j) ==
    PixelAt(src,
            IF call.method.horizontal_flip
            THEN right(call.src_region) - i ELSE call.src_region.x + i,
            IF call.method.vertical_flip
            THEN bottom(call.src_region) - j ELSE call.src_region.y + j)

\* what a method makes of source pixel `pixel` over destination pixel `old`
MethodPixel(m, pixel, old) ==
    IF /\ m.tag \in {"Transparent", "TransparentFlipped", "TransparentSingle",
                     "TransparentFlippedSingle", "TransparentOffset",
                     "TransparentFlippedOffset"}
       /\ pixel = m.transparent_color
    THEN old
    ELSE IF m.tag \in {"TransparentSingle", "TransparentFlippedSingle"} THEN m.draw_color
    ELSE IF m.tag \in {"SolidOffset", "SolidFlippedOffset", "TransparentOffset",
                       "TransparentFlippedOffset"}
    THEN (pixel + m.offset) % ByteMod
    ELSE pixel

\* C11: a SolidFlipped blit of a region whose rectangle lies fully inside the
\* destination clip region writes source column right() - i to destination
\* column dest_x + i under horizontal_flip, source row bottom() - j to
\* destination row dest_y + j under vertical_flip, both under both (a half
\* turn) and the plain copy under neither; the bitmaps' widths differ.
C11_FlippedCopiesMirrored ==
    (/\ BlitDone /\ call.method.tag = "SolidFlipped"
     /\ SrcRegionInSrcClip /\ RequestedInDestClip)
    =>
        \A i \in DOMAIN dest.pixels :
            dest.pixels[i] =
               IF InRequested(PixelX(dest, i), PixelY(dest, i))
               THEN MirroredSource(PixelX(dest, i) - call.dest_x,
                                   PixelY(dest, i) - call.dest_y)
               ELSE call.before[i]

\* The same statement for destination clip regions whose origin is (0, 0).
FlippedCopiesMirroredAtOrigin ==
    (dest.clip_region.x = 0 /\ dest.clip_region.y = 0) => C11_FlippedCopiesMirrored

\* C12: for every non-rotozoom method, blit_region called a second time with
\* the arguments of the first call leaves the destination as the first call
\* left it.
C12_BlitIdempotent ==
    (call.pc = "again" /\ ~IsRotoZoom(call.method)) => dest.pixels = call.before

\* a palette-offset blit that drew pixels has been made twice
C12_Witness ==
    /\ call.pc = "again" /\ call.invoked
    /\ call.method.tag \in {"SolidOffset", "TransparentFlippedOffset"}
    /\ \E i \in DOMAIN dest.pixels : dest.pixels[i] # InitialDestPixel(i)

\* C13: for each of the four rotozoom methods blit_region does not run
\* clip_blit -- whenever the source region clamps to something, the transfer
\* routine is invoked with the clamped region and the caller's dest_x and
\* dest_y, also when the rectangle at (dest_x, dest_y) lies outside the
\* destination clip region; for every other method the routine is invoked
\* exactly when clip_blit returns true, with what clip_blit left.
C13_RotoZoomSkipsClipBlit ==
    BlitDone =>
        LET c == clamp_to(call.src_region, src.clip_region)
            k == clip_blit(dest.clip_region, c.rect, call.dest_x, call.dest_y)
        IN  IF IsRotoZoom(call.method)
            THEN /\ call.invoked <=> c.ok
                 /\ c.ok => /\ call.region = c.rect
                            /\ call.x = call.dest_x /\ call.y = call.dest_y
            ELSE /\ call.invoked <=> (c.ok /\ k.ret)
                 /\ call.invoked => /\ call.region = k.src
                                    /\ call.x = k.dest_x /\ call.y = k.dest_y

\* What does hold of the code: the statement with RotoZoom and
\* RotoZoomTransparent as the only methods that skip clip_blit.
TwoRotoZoomsSkipClipBlit ==
    BlitDone =>
        LET c == clamp_to(call.src_region, src.clip_region)
            k == clip_blit(dest.clip_region, c.rect, call.dest_x, call.dest_y)
        IN  IF call.method.tag \in {"RotoZoom", "RotoZoomTransparent"}
            THEN /\ call.invoked <=> c.ok
                 /\ c.ok => /\ call.region = c.rect
                            /\ call.x = call.dest_x /\ call.y = call.dest_y
            ELSE /\ call.invoked <=> (c.ok /\ k.ret)
                 /\ call.invoked => /\ call.region = k.src
                                    /\ call.x = k.dest_x /\ call.y = k.dest_y

\* C19: after a flipped blit whose rectangle is only partly inside the
\* destination clip region, every destination pixel inside both has the
\* value the same flipped blit gives it without clipping: destination column
\* dest_x + i shows source column right() - i of the caller's region.
C19_FlippedUnderClipping ==
    (/\ BlitDone /\ call.method.tag \in FlippedTags
     /\ SrcRegionInSrcClip /\ ~RequestedInDestClip)
    =>
        \A i \in DOMAIN dest.pixels :
            (/\ InClip(dest, PixelX(dest, i), PixelY(dest, i))
             /\ InRequested(PixelX(dest, i), PixelY(dest, i)))
            => dest.pixels[i] =
                  MethodPixel(call.method,
                              MirroredSource(PixelX(dest, i) - call.dest_x,
                                             PixelY(dest, i) - call.dest_y),
                              call.before[i])

\* The same statement for destination clip regions whose origin is (0, 0).
FlippedUnderClippingAtOrigin ==
    (dest.clip_region.x = 0 /\ dest.clip_region.y = 0) => C19_FlippedUnderClipping

\* The same statement for blits without a flip in either direction.
UnflippedUnderClippingAtOrigin ==
    (/\ dest.clip_region.x = 0 /\ dest.clip_region.y = 0
     /\ ~call.method.horizontal_flip /\ ~call.method.vertical_flip)
    => C19_FlippedUnderClipping

\* C20: for Solid, Transparent, SolidOffset, TransparentOffset and
\* TransparentSingle, a destination clip region at (0, 0) and a source region
\* inside the source clip region, the buffer after blit_region at any
\* (dest_x, dest_y) is the unclipped blit restricted to the clip region: the
\* pixels inside both the clip region and the requested rectangle have the
\* method's value for their source pixel, every other pixel is unchanged.
C20_ClipCommutes ==
    (/\ BlitDone /\ call.method.tag \in UnflippedTags
     /\ dest.clip_region.x = 0 /\ dest.clip_region.y = 0
     /\ SrcRegionInSrcClip)
    =>
        \A i \in DOMAIN dest.pixels :
            dest.pixels[i] =
               IF /\ InClip(dest, PixelX(dest, i), PixelY(dest, i))
                  /\ InRequested(PixelX(dest, i), PixelY(dest, i))
               THEN MethodPixel(call.method,
                                PixelAt(src,
                                        call.src_region.x + (PixelX(dest, i) - call.dest_x),
                                        call.src_region.y + (PixelY(dest, i) - call.dest_y)),
                                call.before[i])
               ELSE call.before[i]

\* a blit whose rectangle hangs over the left and the bottom edge of a clip
\* region at (0, 0) narrower than the bitmap has drawn its visible part
C20_Witness ==
    /\ BlitDone /\ call.method.tag \in UnflippedTags
    /\ dest.clip_region.x = 0 /\ dest.clip_region.y = 0
    /\ dest.clip_region.width < dest.width
    /\ SrcRegionInSrcClip
    /\ call.dest_x < 0
    /\ call.dest_y + call.src_region.height > dest.clip_region.height
    /\ call.invoked
    /\ \E i \in DOMAIN dest.pixels : dest.pixels[i] # call.before[i]

(***************************************************************************)
(* The source clamp of blit_region and the transparent palette-offset      *)
(* blits (checked under Spec).                                             *)
(***************************************************************************)
\* C21: blit_region clamps src_region to the source clip region and leaves
\* dest_x and dest_y as given: for the methods without a flip, when
\* (dest_x, dest_y) lies inside the destination clip region the top-left
\* pixel of the clamped source region is drawn at (dest_x, dest_y); when the
\* clamp leaves nothing, the destination is unchanged.
C21_SrcClampKeepsDest ==
    BlitDone =>
        LET c  == clamp_to(call.src_region, src.clip_region)
            at == call.dest_y * dest.width + call.dest_x
        IN  /\ ~c.ok => dest.pixels = call.before
            /\ (/\ c.ok /\ call.method.tag \in UnflippedTags
                 /\ InClip(dest, call.dest_x, call.dest_y))
               => dest.pixels[at] =
                     MethodPixel(call.method, PixelAt(src, c.rect.x, c.rect.y),
                                 call.before[at])

\* The same statement for destination clip regions whose origin is (0, 0).
SrcClampKeepsDestAtOrigin ==
    (dest.clip_region.x = 0 /\ dest.clip_region.y = 0) => C21_SrcClampKeepsDest

\* C22: after a TransparentOffset or TransparentFlippedOffset transfer, each
\* destination pixel of the blitted rectangle whose source pixel p equals
\* transparent_color has its previous value, and each other one is
\* (p + offset) mod 256, also when that sum is transparent_color.
C22_TransparentBeforeOffset ==
    (Transferred /\ call.method.tag \in {"TransparentOffset", "TransparentFlippedOffset"}) =>
        \A i \in 0..(call.region.width - 1), j \in 0..(call.region.height - 1) :
            LET p  == FlippedSource(i, j)
                at == (call.y + j) * dest.width + (call.x + i)
            IN  dest.pixels[at] =
                   IF p = call.method.transparent_color THEN call.before[at]
                   ELSE (p + call.method.offset) % ByteMod

\* a transparent palette-offset blit has skipped a source pixel equal to
\* transparent_color and has written one whose sum is transparent_color
C22_Witness ==
    /\ Transferred
    /\ call.method.tag \in {"TransparentOffset", "TransparentFlippedOffset"}
    /\ \E i \in 0..(call.region.width - 1), j \in 0..(call.region.height - 1) :
          /\ FlippedSource(i, j) = call.method.transparent_color
          /\ PixelAt(dest, call.x + i, call.y + j)
                = call.before[(call.y + j) * dest.width + (call.x + i)]
    /\ \E i \in 0..(call.region.width - 1), j \in 0..(call.region.height - 1) :
          /\ FlippedSource(i, j) # call.method.transparent_color
          /\ (FlippedSource(i, j) + call.method.offset) % ByteMod
                = call.method.transparent_color
          /\ PixelAt(dest, call.x + i, call.y + j) = call.method.transparent_color

(***************************************************************************)
(* Properties of the pixel accessors and the primitives (checked under     *)
(* SpecPixel and SpecPrim).                                                *)
(***************************************************************************)
PrimDrawn == prim.pc = "done"
PrimRead  == prim.pc = "read"

\* the bitmap as it was before the method ran
BeforeBitmap == [dest EXCEPT !.pixels = prim.before]

\* the pixel (x, y) the accessor was called on lies inside the clip region
ArgInClip == InClip(dest, prim.args[1], prim.args[2])

\* C14: for (x, y) inside the clip region, set_pixel(x, y, c) changes the
\* byte at offset y * width + x to c and no other byte, a get_pixel(x, y)
\* that follows returns Some(c), and the unchecked accessors do the same.
C14_PixelRoundTrip ==
    /\ (/\ PrimDrawn /\ prim.op \in {"set_pixel", "set_pixel_unchecked"} /\ ArgInClip)
       => \A i \in DOMAIN dest.pixels :
             dest.pixels[i] = IF i = prim.args[2] * dest.width + prim.args[1]
                              THEN prim.color ELSE prim.before[i]
    /\ (/\ PrimRead /\ prim.op \in {"get_pixel", "get_pixel_unchecked"} /\ ArgInClip
        /\ prim.prev.pc = "done"
        /\ prim.prev.op \in {"set_pixel", "set_pixel_unchecked"}
        /\ prim.prev.args = prim.args)
       => prim.result = prim.prev.color

\* set_pixel on a pixel of a clip region that does not start at (0, 0),
\* followed by get_pixel on the same pixel returning the colour set
C14_Witness ==
    /\ PrimRead /\ prim.op = "get_pixel" /\ ArgInClip
    /\ dest.clip_region.x > 0 /\ dest.clip_region.y > 0
    /\ prim.prev.pc = "done" /\ prim.prev.op = "set_pixel"
    /\ prim.prev.args = prim.args
    /\ prim.result = prim.prev.color

\* C15: for (x, y) outside the clip region -- negative, past the bitmap, or
\* inside the bitmap but outside a narrowed clip region -- get_pixel returns
\* None and set_pixel and set_blended_pixel change no byte.
C15_OutsideClipNoAccess ==
    /\ (/\ PrimDrawn /\ prim.op \in {"set_pixel", "set_blended_pixel"} /\ ~ArgInClip)
       => dest.pixels = prim.before
    /\ (PrimRead /\ prim.op = "get_pixel" /\ ~ArgInClip) => prim.result = None

\* set_pixel was called on a pixel inside the bitmap but outside the
\* narrowed clip region, and left the buffer as it was
C15_Witness ==
    /\ PrimDrawn /\ prim.op = "set_pixel" /\ ~ArgInClip
    /\ prim.args[1] \in BitmapXs /\ prim.args[2] \in BitmapYs
    /\ dest.pixels = prim.before

\* the offsets of the pixels the method changed
Changed == { i \in DOMAIN dest.pixels : dest.pixels[i] # prim.before[i] }

BlendedPrimitives ==
    {"blended_line", "blended_horiz_line", "blended_vert_line", "blended_rect",
     "blended_filled_rect"}

\* the unblended counterpart of blended primitive op, drawn on bmp
Unblended(bmp, op, a, color) ==
    CASE op = "blended_line" -> line(bmp, a[1], a[2], a[3], a[4], color)
      [] op = "blended_horiz_line" -> horiz_line(bmp, a[1], a[2], a[3], color)
      [] op = "blended_vert_line" -> vert_line(bmp, a[1], a[2], a[3], color)
      [] op = "blended_rect" -> rect(bmp, a[1], a[2], a[3], a[4], color)
      [] op = "blended_filled_rect" -> filled_rect(bmp, a[1], a[2], a[3], a[4], color)

\* C17: when the blend map has no mapping for the colour, blended_line,
\* blended_horiz_line, blended_vert_line, blended_rect and
\* blended_filled_rect leave the buffer as the unblended primitive called
\* with the same arguments leaves it.
C17_BlendedFallback ==
    (PrimDrawn /\ prim.op \in BlendedPrimitives /\ ~prim.mapped) =>
        dest.pixels = Unblended(BeforeBitmap, prim.op, prim.args, prim.color).pixels

\* a blended_line without a mapping for its colour has drawn the flat colour
C17_Witness ==
    /\ PrimDrawn /\ prim.op = "blended_line" /\ ~prim.mapped
    /\ \E i \in Changed : dest.pixels[i] = prim.color

\* the offsets the unblended counterpart writes: those it changes when it
\* draws a colour that no pixel of the buffer has
WriteSet ==
    { i \in DOMAIN prim.before :
         Unblended(BeforeBitmap, prim.op, prim.args, ByteMod - 1).pixels[i] # prim.before[i] }

\* C18: with a mapping for the colour, each blended primitive changes
\* exactly the pixels its unblended counterpart writes (also for rectangles
\* cut by the clip region), each to mapping[previous value].
C18_BlendedWriteSet ==
    (PrimDrawn /\ prim.op \in BlendedPrimitives /\ prim.mapped) =>
        \A i \in DOMAIN dest.pixels :
            dest.pixels[i] = IF i \in WriteSet THEN BlendTable[prim.before[i]]
                             ELSE prim.before[i]

\* The same statement for the blended primitives other than blended_rect.
BlendedWriteSetExceptRect ==
    (PrimDrawn /\ prim.op # "blended_rect") => C18_BlendedWriteSet

\* The same statement for blended_rect when the clip region cuts off
\* no part of the rectangle and the rectangle is at least two pixels
\* wide and two pixels high.
BlendedWriteSetWholeRect ==
    (/\ PrimDrawn /\ prim.op = "blended_rect"
     /\ InClip(dest, prim.args[1], prim.args[2]) /\ InClip(dest, prim.args[3], prim.args[4])
     /\ prim.args[1] # prim.args[3] /\ prim.args[2] # prim.args[4])
    => C18_BlendedWriteSet

(***************************************************************************)
(* The points line visits (checked under SpecPrim).                        *)
(***************************************************************************)
LineDrawn == PrimDrawn /\ prim.op = "line"

\* the states of line's loop for the call just made
LinePoints ==
    LineVisited(BeforeBitmap, prim.args[1], prim.args[2], prim.args[3], prim.args[4],
                Flat(prim.color))

\* C23: line(x1, y1, x2, y2) visits max(|x2 - x1|, |y2 - y1|) + 1 points, from
\* (x1, y1) to (x2, y2); each next point is 1 further on the major axis and at
\* most 1 on the minor axis; at every point the pointer is at offset
\* y * width + x; the buffer afterwards has the colour at exactly the visited
\* points inside the clip region and its previous bytes everywhere else.
C23_LineVisits ==
    LineDrawn =>
        LET a  == prim.args
            tr == LinePoints
            n  == Max2(Abs(a[3] - a[1]), Abs(a[4] - a[2]))
            xmajor == Abs(a[3] - a[1]) >= Abs(a[4] - a[2])
        IN  /\ Len(tr) = n + 1
            /\ tr[1].dx = a[1] /\ tr[1].dy = a[2]
            /\ tr[Len(tr)].dx = a[3] /\ tr[Len(tr)].dy = a[4]
            /\ \A k \in 1..(Len(tr) - 1) :
                  IF xmajor
                  THEN /\ Abs(tr[k + 1].dx - tr[k].dx) = 1
                       /\ Abs(tr[k + 1].dy - tr[k].dy) <= 1
                  ELSE /\ Abs(tr[k + 1].dy - tr[k].dy) = 1
                       /\ Abs(tr[k + 1].dx - tr[k].dx) <= 1
            /\ \A k \in 1..Len(tr) : tr[k].dest = tr[k].dy * dest.width + tr[k].dx
            /\ \A i \in DOMAIN dest.pixels :
                  dest.pixels[i] =
                     IF \E k \in 1..Len(tr) :
                           /\ InClip(dest, tr[k].dx, tr[k].dy)
                           /\ i = tr[k].dy * dest.width + tr[k].dx
                     THEN prim.color ELSE prim.before[i]

\* a line that is neither level, upright nor diagonal has been drawn with
\* both visited points outside the clip region and drawn points inside it
C23_Witness ==
    /\ LineDrawn
    /\ Abs(prim.args[3] - prim.args[1]) >= 2
    /\ Abs(prim.args[4] - prim.args[2]) >= 1
    /\ Abs(prim.args[3] - prim.args[1]) # Abs(prim.args[4] - prim.args[2])
    /\ \E k \in 1..Len(LinePoints) : ~InClip(dest, LinePoints[k].dx, LinePoints[k].dy)
    /\ \E i \in DOMAIN dest.pixels : dest.pixels[i] # prim.before[i]

(***************************************************************************)
(* Filled spans and the rectangle outline (checked under SpecPrim).        *)
(***************************************************************************)
\* the two corner points of the call just made: horiz_line(x1, x2, y),
\* vert_line(x, y1, y2), and (x1, y1, x2, y2) for the rectangles
Corners ==
    LET a == prim.args
    IN  CASE prim.op \in {"horiz_line", "blended_horiz_line"} ->
               [x1 |-> a[1], y1 |-> a[3], x2 |-> a[2], y2 |-> a[3]]
          [] prim.op \in {"vert_line", "blended_vert_line"} ->
               [x1 |-> a[1], y1 |-> a[2], x2 |-> a[1], y2 |-> a[3]]
          [] OTHER -> [x1 |-> a[1], y1 |-> a[2], x2 |-> a[3], y2 |-> a[4]]

\* (x, y) lies in the rectangle spanned by the two corner points
InSpanned(x, y) ==
    /\ Min2(Corners.x1, Corners.x2) <= x /\ x <= Max2(Corners.x1, Corners.x2)
    /\ Min2(Corners.y1, Corners.y2) <= y /\ y <= Max2(Corners.y1, Corners.y2)

\* (x, y) lies on one of the four edges of that rectangle
OnOutline(x, y) ==
    /\ InSpanned(x, y)
    /\ \/ x = Min2(Corners.x1, Corners.x2) \/ x = Max2(Corners.x1, Corners.x2)
       \/ y = Min2(Corners.y1, Corners.y2) \/ y = Max2(Corners.y1, Corners.y2)

SpanDrawn == PrimDrawn /\ prim.op \in {"horiz_line", "vert_line", "filled_rect"}

\* C24: after horiz_line, vert_line or filled_rect the pixels inside both the
\* clip region and the rectangle spanned by the two corner points, in
\* whichever order they were given, have the colour and every other pixel
\* has its previous value (all of them when the two do not meet).
C24_FilledSpans ==
    SpanDrawn =>
        \A i \in DOMAIN dest.pixels :
            dest.pixels[i] =
               IF /\ InClip(dest, PixelX(dest, i), PixelY(dest, i))
                  /\ InSpanned(PixelX(dest, i), PixelY(dest, i))
               THEN prim.color ELSE prim.before[i]

\* a filled_rect given its bottom-right corner first, cut by the clip region
\* and narrower than the bitmap, has filled more than one row
C24_Witness ==
    /\ PrimDrawn /\ prim.op = "filled_rect"
    /\ prim.args[1] > prim.args[3] /\ prim.args[2] > prim.args[4]
    /\ ~InClip(dest, prim.args[1], prim.args[2])
    /\ \E i, j \in DOMAIN dest.pixels :
          /\ PixelY(dest, i) # PixelY(dest, j)
          /\ dest.pixels[i] # prim.before[i] /\ dest.pixels[j] # prim.before[j]
    /\ \E i \in DOMAIN dest.pixels :
          InClip(dest, PixelX(dest, i), PixelY(dest, i)) /\ dest.pixels[i] = prim.before[i]

\* C25: after rect the pixels of the outline of the rectangle spanned by the
\* two corner points that lie inside the clip region have the colour, and
\* every other pixel (the interior, and the clip boundary where an edge lies
\* outside the clip region) has its previous value.
C25_RectOutlineClipped ==
    (PrimDrawn /\ prim.op = "rect") =>
        \A i \in DOMAIN dest.pixels :
            dest.pixels[i] =
               IF /\ InClip(dest, PixelX(dest, i), PixelY(dest, i))
                  /\ OnOutline(PixelX(dest, i), PixelY(dest, i))
               THEN prim.color ELSE prim.before[i]

\* a rect given its bottom-right corner first, with an edge outside the clip
\* region and an interior pixel inside it, has drawn part of its outline
C25_Witness ==
    /\ PrimDrawn /\ prim.op = "rect"
    /\ prim.args[1] > prim.args[3] /\ prim.args[2] > prim.args[4]
    /\ prim.args[3] < dest.clip_region.x
    /\ \E i \in DOMAIN dest.pixels :
          /\ InClip(dest, PixelX(dest, i), PixelY(dest, i))
          /\ InSpanned(PixelX(dest, i), PixelY(dest, i))
          /\ ~OnOutline(PixelX(dest, i), PixelY(dest, i))
    /\ \E i \in DOMAIN dest.pixels : dest.pixels[i] # prim.before[i]

(***************************************************************************)
(* blended_rect with a mapping for the colour (checked under SpecPrim).    *)
(* BlendTable maps no byte to itself and none to the same byte as two      *)
(* applications do, so a pixel blended twice shows in the buffer.          *)
(***************************************************************************)
BlendedRectDrawn == PrimDrawn /\ prim.op = "blended_rect" /\ prim.mapped

\* C26: a blended_rect call with a mapping applies the mapping to no pixel
\* more than once: every pixel afterwards is its previous value or the
\* mapping of its previous value, also for rectangles 1 pixel wide or tall.
C26_BlendedRectOnce ==
    BlendedRectDrawn =>
        \A i \in DOMAIN dest.pixels :
            dest.pixels[i] \in {prim.before[i], BlendTable[prim.before[i]]}

\* What does hold of the code: the statement for rectangles at least 2
\* pixels wide and 2 pixels tall.
BlendedRectOnceWhenTwoWide ==
    (/\ BlendedRectDrawn
     /\ prim.args[1] # prim.args[3] /\ prim.args[2] # prim.args[4])
    => C26_BlendedRectOnce

(***************************************************************************)
(* The midpoint circle (checked under SpecPrim).                           *)
(***************************************************************************)
CircleDrawn == PrimDrawn /\ prim.op \in {"circle", "filled_circle"}

\* (dx, dy) is one of the eight reflections of the first-octant point (x, y)
Reflects(dx, dy, x, y) ==
    \/ Abs(dx) = x /\ Abs(dy) = y
    \/ Abs(dx) = y /\ Abs(dy) = x

\* C27: the loop of circle and filled_circle makes at most radius + 1
\* passes; every point (x, y) of a pass has |x * x + y * y - r * r| <= r (and
\* so has each of its reflections); circle gives the colour to exactly the
\* pixels inside the clip region at an offset from the centre that is one of
\* the eight reflections of the point of some pass, and changes no other.
C27_MidpointCircle ==
    CircleDrawn =>
        LET cx == prim.args[1]
            cy == prim.args[2]
            r  == prim.args[3]
            tr == CirclePasses(r)
        IN  /\ Len(tr) <= r + 1
            /\ \A k \in 1..Len(tr) :
                  /\ 0 <= tr[k].x /\ tr[k].x <= tr[k].y
                  /\ Abs(tr[k].x * tr[k].x + tr[k].y * tr[k].y - r * r) <= r
            /\ prim.op = "circle" =>
                  \A i \in DOMAIN dest.pixels :
                     dest.pixels[i] =
                        IF /\ InClip(dest, PixelX(dest, i), PixelY(dest, i))
                           /\ \E k \in 1..Len(tr) :
                                 Reflects(PixelX(dest, i) - cx, PixelY(dest, i) - cy,
                                          tr[k].x, tr[k].y)
                        THEN prim.color ELSE prim.before[i]

\* a circle whose loop made three passes or more, y stepping towards the
\* centre, has drawn part of its outline, the rest lying outside the clip
\* region
C27_Witness ==
    /\ PrimDrawn /\ prim.op = "circle"
    /\ Len(CirclePasses(prim.args[3])) >= 3
    /\ \E k \in 1..Len(CirclePasses(prim.args[3])) :
          CirclePasses(prim.args[3])[k].y < prim.args[3]
    /\ ~InClip(dest, prim.args[1], prim.args[2] + prim.args[3])
    /\ \E i \in DOMAIN dest.pixels : dest.pixels[i] # prim.before[i]

(***************************************************************************)
(* RotoZoom without rotation or scaling (checked under Spec).              *)
(***************************************************************************)
\* a RotoZoom blit with angle 0 and both scales 1 has returned; its source
\* region lies inside the source clip region and its rectangle strictly
\* inside the destination clip region
RotoZoomIdentityDone ==
    /\ BlitDone /\ call.method.tag = "RotoZoom"
    /\ call.method.angle = 0 /\ call.method.scale_x = 1 /\ call.method.scale_y = 1
    /\ SrcRegionInSrcClip
    /\ dest.clip_region.x < call.dest_x
    /\ call.dest_x + call.src_region.width < dest.clip_region.x + dest.clip_region.width
    /\ dest.clip_region.y < call.dest_y
    /\ call.dest_y + call.src_region.height < dest.clip_region.y + dest.clip_region.height

\* C28: such a RotoZoom blit leaves the destination buffer as a Solid blit of
\* the same region at the same origin leaves it.
C28_RotoZoomIdentity ==
    RotoZoomIdentityDone =>
        dest.pixels = solid_blit([dest EXCEPT !.pixels = call.before], src,
                                 call.src_region, call.dest_x, call.dest_y)

\* What does hold of the code: the buffer is that of the Solid blit with, in
\* addition, the rightmost column of the region repeated in the column to
\* the right of the rectangle.
RotoZoomIdentityPlusColumn ==
    RotoZoomIdentityDone =>
        \A i \in DOMAIN dest.pixels :
            dest.pixels[i] =
               IF InRequested(PixelX(dest, i), PixelY(dest, i))
               THEN PixelAt(src, call.src_region.x + (PixelX(dest, i) - call.dest_x),
                                 call.src_region.y + (PixelY(dest, i) - call.dest_y))
               ELSE IF InRequested(PixelX(dest, i) - 1, PixelY(dest, i))
               THEN PixelAt(src, right(call.src_region),
                                 call.src_region.y + (PixelY(dest, i) - call.dest_y))
               ELSE call.before[i]

(***************************************************************************)
(* The frame of the drawing calls (checked under SpecFrame).               *)
(***************************************************************************)
\* C29: after any sequence of blits and primitives that returned, the
\* destination's clip region, width and height are what they were before the
\* sequence, its buffer still has width * height bytes, and the source
\* bitmap is as it was: only destination pixel bytes have changed.
C29_FrameKept ==
    ~fault =>
        /\ dest.clip_region = prim.clip_region
        /\ dest.width = prim.width
        /\ dest.height = prim.height
        /\ DOMAIN dest.pixels = 0..(dest.width * dest.height - 1)
        /\ src = prim.src

\* a blit that drew and MaxDraws primitives have returned on a destination
\* with a narrowed clip region, and pixels have changed
C29_Witness ==
    /\ ~fault
    /\ call.pc = "done" /\ call.invoked /\ dest.pixels # call.before
    /\ prim.calls = MaxDraws
    /\ dest.clip_region # FullRect(dest.width, dest.height)
    /\ \E i \in DOMAIN dest.pixels : dest.pixels[i] # InitialDestPixel(i)

====
